---- MODULE Spec2Model ----
(***************************************************************************)
(* The recording-session controller of listen.py: main() registers the     *)
(* SIGUSR1 handler, record() starts the keyboard listener, opens the       *)
(* capture stream and polls the stop conditions once per loop iteration.   *)
(*                                                                         *)
(* Time is counted in units of one loop sleep (time.sleep(0.05), so        *)
(* TicksPerSec units make a second); levels and samples are counted in     *)
(* thousandths of full scale (VAD_THRESHOLD = 0.015 is 15).                *)
(***************************************************************************)
EXTENDS Integers, Sequences, FiniteSets, TLC

VARIABLES
    signal_mode,          \* listen.py:40, set by main() from the merged config
    vad_enabled,          \* listen.py:41
    vad_silence_duration, \* listen.py:42, in time units
    stdin_is_tty,         \* listen.py:38
    pc,                   \* position of the main thread
    handler_registered,   \* signal.signal(SIGUSR1, signal_handler) was called
    signal_stop,          \* listen.py:39, signal_stop[0]
    rec,                  \* listen.py:32, the buffered blocks
    lvl,                  \* listen.py:33, lvl[0]
    q,                    \* record(): the keyboard queue
    kbd,                  \* position of the kbd_listen thread
    timeout,              \* record(): None or the hard timeout
    silence_start,        \* record(): None or the time the silence timer started
    has_speech,           \* record()
    t0,                   \* record(): time the stream was opened
    now,                  \* time.time()
    stream_open,          \* the sd.InputStream context is entered
    reason,               \* which break statement left the loop ("none" while looping)
    evald,                \* the stop sources the last loop iteration consulted, in order
    data,                 \* what record() returns: None, or the samples
    speech_tick,          \* history: time of the last iteration that read a level >= threshold
    verbose,              \* listen.py:35, set by main() from the merged config
    handler_output,       \* signal_handler has written to stderr
    delivered,            \* history: the blocks the device has passed to audio_cb, in order
    run,                  \* main(): run[0], the renderer's loop condition
    renderer,             \* position of the prog thread started by start_proc()
    tmp,                  \* main(): the temporary .wav file
    engine_loads,         \* number of calls of whisper.load_model
    engine_calls,         \* number of calls of m.transcribe
    exit_code,            \* the status the process exits with, None until decided
    raised,               \* the exception main() has met after record(), "none" if none
    pct,                  \* listen.py:34, pct[0], in thousandths
    blink_state,          \* main(): blink_state[0], the renderer's iteration counter
    marker,               \* history: the number of the last percentage P.write parsed
    lines_out,            \* history: how many lines the engine has written to stderr
    sink_dest,            \* status sink: the content of the destination path
    sink_tmp,             \* status sink: the content of the sibling temporary path
    sink_pc,              \* status sink: position of the publisher
    sink_seq,             \* status sink: number of the snapshot being published
    reader_saw,           \* history: what the last reader of the destination observed
    cfg_file,             \* config.py: the content of ~/.listen/config.json
    cfg_op,               \* config.py: the function called last
    cfg_in,               \* config.py: the arguments of that call
    cfg_out,              \* config.py: what that call returned or raised
    argv,                 \* main(): sys.argv[1:]
    cli_opts,             \* main(): cli_args, the options given on the command line
    file_path,            \* main(): the value of -f/--file, None without one
    final_config,         \* main(): the merged configuration
    sys_stderr,           \* sys.stderr: the real stream or an instance of P
    saver,                \* a save_config running in another process
    bars                  \* record(): the bar string being built and the last one drawn

vars == << signal_mode, vad_enabled, vad_silence_duration, stdin_is_tty, pc,
           handler_registered, signal_stop, rec, lvl, q, kbd, timeout,
           silence_start, has_speech, t0, now, stream_open, reason, evald,
           data, speech_tick, verbose, handler_output, delivered, run,
           renderer, tmp, engine_loads, engine_calls, exit_code, raised,
           pct, blink_state, marker, lines_out,
           sink_dest, sink_tmp, sink_pc, sink_seq, reader_saw,
           cfg_file, cfg_op, cfg_in, cfg_out,
           argv, cli_opts, file_path, final_config, sys_stderr, saver, bars >>

\* what main() works on after record() has returned
pipeline == << run, tmp, engine_loads, engine_calls, exit_code, raised >>

\* the progress of the processing phase
progress == << pct, blink_state, marker, lines_out, sys_stderr >>

\* the status sink
sink == << sink_dest, sink_tmp, sink_pc, sink_seq, reader_saw >>

\* the configuration module
cfg == << cfg_file, cfg_op, cfg_in, cfg_out >>

\* the command line and what main() makes of it
cli == << argv, cli_opts, file_path, final_config >>

\* what a recording session leaves alone
side == << progress, sink, cfg, cli, saver, bars >>

----------------------------------------------------------------------------
(* Bounds of the model *)

\* sessions without a hard timeout are followed up to this time
MaxTime == 7

\* at most this many blocks are delivered by the device in one session
MaxBlocks == 4

\* one loop iteration (draw, checks, sleep) takes at most this many units
MaxSleep == 2

----------------------------------------------------------------------------
(* Program constants *)

\* Python's None, for timeout, silence_start and exit_code
None == 0 - 1

\* record() returning None
NoData == [isNone |-> TRUE, samples |-> << >>]

\* record() returning the array of samples
SomeData(samples) == [isNone |-> FALSE, samples |-> samples]

\* time.sleep(0.05): the unit of time; 1 / 0.05 units per second
TicksPerSec == 20

\* the loop sleeps one unit per iteration
SleepUnits == 1

\* timeout = 10 (seconds) when piped
HardTimeoutSec == 10

\* VAD_DEFAULT_DURATION = 2.0 (seconds)
VAD_DEFAULT_DURATION == 2

\* VAD_THRESHOLD = 0.015, in thousandths
VAD_THRESHOLD == 15

\* vad_threshold = VAD_THRESHOLD; main() never assigns it
vad_threshold == VAD_THRESHOLD

\* time.sleep(0.15) of a trailing pulse, in units
PulseSleep == 3

\* for _ in range(3): two sleeps per pulse
PulseCount == 3

\* the silence durations a VAD session may be configured with (--vad SECONDS),
\* in units: 0 s and 0.1 s
Durations == {0, 2}

\* the blocks the device may deliver: two samples each, in thousandths
Blocks == { <<14, 0 - 14>>, <<15, 15>> }

\* float(np.sqrt(np.mean(data**2))) on a block, rounded down to thousandths
Rms(b) ==
    LET m == (b[1] * b[1] + b[2] * b[2]) \div Len(b)
    IN  CHOOSE r \in 0..1000 : r * r <= m /\ m < (r + 1) * (r + 1)

\* Concatenate joining the blocks last first
RECURSIVE Concatenate_Reversed(_)
Concatenate_Reversed(blocks) ==
    IF blocks = << >> THEN << >>
    ELSE Concatenate_Reversed(Tail(blocks)) \o Head(blocks)

\* np.concatenate(rec), flattened
RECURSIVE Concatenate(_)
Concatenate(blocks) ==
    IF blocks = << >> THEN << >>
    ELSE Head(blocks) \o Concatenate(Tail(blocks))

----------------------------------------------------------------------------
(* The parts of the program a recording session does not run: their state   *)
(* before anything has happened.                                            *)

\* pct = [0.0]; blink_state = [0]; nothing written by the engine; sys.stderr
\* is the stream the process was started with
ProgressIdle ==
    /\ pct = 0
    /\ blink_state = 0
    /\ marker = None
    /\ lines_out = 0
    /\ sys_stderr = "real"

\* no status sink is in use
SinkIdle ==
    /\ sink_dest = << >>
    /\ sink_tmp = << >>
    /\ sink_pc = "off"
    /\ sink_seq = 0
    /\ reader_saw = << >>

\* there is no file at the path
NoFile == [kind |-> "absent", doc |-> << >>]

\* no function of config.py has been called
ConfigIdle ==
    /\ cfg_file = NoFile
    /\ cfg_op = "none"
    /\ cfg_in = << >>
    /\ cfg_out = << >>

\* main() has not read the command line
CliIdle ==
    /\ argv = << >>
    /\ cli_opts = << >>
    /\ file_path = << >>
    /\ final_config = << >>

\* no other process is saving the configuration
SaverIdle ==
    saver = [pc |-> "off", arg |-> << >>, old |-> NoFile]

\* no bar has been drawn
BarsIdle ==
    bars = [filled |-> None, width |-> None]

\* the parts that only the specifications further down bring into play
OthersIdle ==
    /\ CliIdle
    /\ SaverIdle
    /\ BarsIdle

----------------------------------------------------------------------------
(* State after main() has merged the configuration (listen.py:588-607).     *)
(* A session without VAD never reads the silence duration: it is given the *)
(* default one. Of the output of log() only that of signal_handler is      *)
(* modelled, so verbose is drawn for the sessions that register it.        *)

Init ==
    /\ signal_mode \in BOOLEAN
    /\ vad_enabled \in BOOLEAN
    /\ vad_silence_duration \in
         IF vad_enabled THEN Durations ELSE {VAD_DEFAULT_DURATION * TicksPerSec}
    /\ stdin_is_tty \in BOOLEAN
    /\ pc = "main"
    /\ handler_registered = FALSE
    /\ signal_stop = FALSE
    /\ rec = << >>
    /\ lvl = 0
    /\ q = << >>
    /\ kbd = "idle"
    /\ timeout = None
    /\ silence_start = None
    /\ has_speech = FALSE
    /\ t0 = None
    /\ now = 0
    /\ stream_open = FALSE
    /\ reason = "none"
    /\ evald = << >>
    /\ data = NoData
    /\ speech_tick = None
    /\ verbose \in (IF signal_mode THEN BOOLEAN ELSE {FALSE})
    /\ handler_output = FALSE
    /\ delivered = << >>
    /\ run = TRUE
    /\ renderer = "idle"
    /\ tmp = "none"
    /\ engine_loads = 0
    /\ engine_calls = 0
    /\ exit_code = None
    /\ raised = "none"
    /\ ProgressIdle
    /\ SinkIdle
    /\ ConfigIdle
    /\ OthersIdle

----------------------------------------------------------------------------
(* main(): signal handler registration, then record(start_proc) *)

MainStart ==
    /\ pc = "main"
    /\ handler_registered' = signal_mode
    /\ pc' = "record"
    /\ UNCHANGED << side, verbose, pipeline, handler_output, delivered, renderer, signal_mode, vad_enabled, vad_silence_duration, stdin_is_tty,
                    signal_stop, rec, lvl, q, kbd, timeout, silence_start,
                    has_speech, t0, now, stream_open, reason, evald, data,
                    speech_tick >>

\* signal_handler(signum, frame): may run at any time once registered;
\* log() prints to stderr when verbose
SignalHandler ==
    /\ handler_registered
    /\ ~signal_stop
    /\ signal_stop' = TRUE
    /\ handler_output' = (handler_output \/ verbose)
    /\ UNCHANGED << side, verbose, pipeline, delivered, renderer, signal_mode, vad_enabled, vad_silence_duration, stdin_is_tty,
                    pc, handler_registered, rec, lvl, q, kbd, timeout,
                    silence_start, has_speech, t0, now, stream_open, reason,
                    evald, data, speech_tick >>

\* ArmTimeout with the VAD test dropped: the hard timeout also in VAD mode
ArmTimeout_IgnoresVad ==
    IF signal_mode THEN None
    ELSE IF ~stdin_is_tty THEN HardTimeoutSec * TicksPerSec
    ELSE None

\* ArmTimeout with the terminal test dropped: the hard timeout also on a terminal
ArmTimeout_IgnoresTty ==
    IF signal_mode \/ vad_enabled THEN None
    ELSE HardTimeoutSec * TicksPerSec

\* timeout = None if (signal_mode or vad_enabled) else (10 if not stdin_is_tty else None)
ArmTimeout ==
    IF signal_mode \/ vad_enabled THEN None
    ELSE IF ~stdin_is_tty THEN HardTimeoutSec * TicksPerSec
    ELSE None

\* StartListener without the signal-mode test
StartListener_Always ==
    "started"

\* if not signal_mode: threading.Thread(target=kbd_listen, ...).start()
StartListener ==
    IF ~signal_mode THEN "started" ELSE "idle"

\* record() up to the with statement
RecordStart ==
    /\ pc = "record"
    /\ rec' = << >>
    /\ q' = << >>
    /\ kbd' = StartListener
    /\ timeout' = ArmTimeout
    /\ silence_start' = None
    /\ has_speech' = FALSE
    /\ pc' = "open"
    /\ UNCHANGED << side, verbose, pipeline, handler_output, delivered, renderer, signal_mode, vad_enabled, vad_silence_duration, stdin_is_tty,
                    handler_registered, signal_stop, lvl, t0, now, stream_open,
                    reason, evald, data, speech_tick >>

\* with sd.InputStream(...): t0 = time.time(); opening the device takes one unit
OpenStream ==
    /\ pc = "open"
    /\ now' = now + 1
    /\ t0' = now + 1
    /\ stream_open' = TRUE
    /\ pc' = "loop"
    /\ UNCHANGED << side, verbose, pipeline, handler_output, delivered, renderer, signal_mode, vad_enabled, vad_silence_duration, stdin_is_tty,
                    handler_registered, signal_stop, rec, lvl, q, kbd, timeout,
                    silence_start, has_speech, reason, evald, data, speech_tick >>

\* AudioCb that also marks speech when the block is loud
AudioCb_SetsSpeech ==
    /\ stream_open
    /\ Len(rec) < MaxBlocks
    /\ \E b \in Blocks :
         /\ rec' = Append(rec, b)
         /\ lvl' = Rms(b)
         /\ delivered' = Append(delivered, b)
         /\ has_speech' = (has_speech \/ Rms(b) >= vad_threshold)
    /\ UNCHANGED << side, verbose, pipeline, handler_output, renderer, signal_mode,
                    vad_enabled, vad_silence_duration, stdin_is_tty,
                    pc, handler_registered, signal_stop, q, kbd, timeout,
                    silence_start, t0, now, stream_open, reason,
                    evald, data, speech_tick >>

\* audio_cb(data, frames, t, status), on the device's thread while the stream is open
AudioCb ==
    /\ stream_open
    /\ Len(rec) < MaxBlocks
    /\ \E b \in Blocks :
         /\ rec' = Append(rec, b)
         /\ lvl' = Rms(b)
         /\ delivered' = Append(delivered, b)
    /\ UNCHANGED << side, verbose, pipeline, handler_output, renderer, signal_mode, vad_enabled, vad_silence_duration, stdin_is_tty,
                    pc, handler_registered, signal_stop, q, kbd, timeout,
                    silence_start, has_speech, t0, now, stream_open, reason,
                    evald, data, speech_tick >>

\* kbd_listen(q) up to its read loop: returns at once without a terminal, or
\* when terminal control is not available
KbdEnter ==
    /\ kbd = "started"
    /\ \E term_ok \in BOOLEAN :
         kbd' = IF stdin_is_tty /\ term_ok THEN "reading" ELSE "done"
    /\ UNCHANGED << side, verbose, pipeline, handler_output, delivered, renderer, signal_mode, vad_enabled, vad_silence_duration, stdin_is_tty,
                    pc, handler_registered, signal_stop, rec, lvl, q, timeout,
                    silence_start, has_speech, t0, now, stream_open, reason,
                    evald, data, speech_tick >>

\* kbd_listen(q): sys.stdin.read(1) == ' ' -> q.put(1); break
KbdSpace ==
    /\ kbd = "reading"
    /\ q' = Append(q, 1)
    /\ kbd' = "done"
    /\ UNCHANGED << side, verbose, pipeline, handler_output, delivered, renderer, signal_mode, vad_enabled, vad_silence_duration, stdin_is_tty,
                    pc, handler_registered, signal_stop, rec, lvl, timeout,
                    silence_start, has_speech, t0, now, stream_open, reason,
                    evald, data, speech_tick >>

----------------------------------------------------------------------------
(* One iteration of the recording loop (listen.py:151-199) *)

\* is_silent = current_level < vad_threshold
IsSilent ==
    lvl < vad_threshold

\* VadStep breaking as soon as a timer is running, whatever time has elapsed
VadStep_NoWait ==
    IF ~IsSilent
    THEN [has_speech |-> TRUE, silence_start |-> None, fire |-> FALSE]
    ELSE IF has_speech
    THEN IF silence_start = None
         THEN [has_speech |-> has_speech, silence_start |-> now, fire |-> FALSE]
         ELSE [has_speech |-> has_speech, silence_start |-> silence_start,
               fire |-> TRUE]
    ELSE [has_speech |-> has_speech, silence_start |-> silence_start, fire |-> FALSE]

\* VadStep starting the silence timer without asking for speech first
VadStep_TimerWithoutSpeech ==
    IF ~IsSilent
    THEN [has_speech |-> TRUE, silence_start |-> None, fire |-> FALSE]
    ELSE IF silence_start = None
    THEN [has_speech |-> has_speech, silence_start |-> now, fire |-> FALSE]
    ELSE [has_speech |-> has_speech, silence_start |-> silence_start,
          fire |-> (now - silence_start >= vad_silence_duration)]

\* VadStep keeping a running timer when speech is read
VadStep_KeepsTimer ==
    IF ~IsSilent
    THEN [has_speech |-> TRUE, silence_start |-> silence_start, fire |-> FALSE]
    ELSE IF has_speech
    THEN IF silence_start = None
         THEN [has_speech |-> has_speech, silence_start |-> now, fire |-> FALSE]
         ELSE [has_speech |-> has_speech, silence_start |-> silence_start,
               fire |-> (now - silence_start >= vad_silence_duration)]
    ELSE [has_speech |-> has_speech, silence_start |-> silence_start, fire |-> FALSE]

\* VadStep with > for >=: the break comes one iteration late
VadStep_StrictlyLonger ==
    IF ~IsSilent
    THEN [has_speech |-> TRUE, silence_start |-> None, fire |-> FALSE]
    ELSE IF has_speech
    THEN IF silence_start = None
         THEN [has_speech |-> has_speech, silence_start |-> now, fire |-> FALSE]
         ELSE [has_speech |-> has_speech, silence_start |-> silence_start,
               fire |-> (now - silence_start > vad_silence_duration)]
    ELSE [has_speech |-> has_speech, silence_start |-> silence_start, fire |-> FALSE]

\* the body of "if vad_enabled:": the new has_speech and silence_start, and
\* whether its break is taken
VadStep ==
    IF ~IsSilent
    THEN [has_speech |-> TRUE, silence_start |-> None, fire |-> FALSE]
    ELSE IF has_speech
    THEN IF silence_start = None
         THEN [has_speech |-> has_speech, silence_start |-> now, fire |-> FALSE]
         ELSE [has_speech |-> has_speech, silence_start |-> silence_start,
               fire |-> (now - silence_start >= vad_silence_duration)]
    ELSE [has_speech |-> has_speech, silence_start |-> silence_start, fire |-> FALSE]

\* "if timeout": None and 0 are false
TimeoutArmed ==
    timeout # None /\ timeout # 0

\* The checks of one iteration, last first. Each stage gives the break taken
\* ("none": no break), the queue as it leaves it and the stop sources it
\* consulted, in order.

\* KeyboardStage without the signal-mode test: the queue is polled in every mode
KeyboardStage_AlwaysPolls ==
    IF q # << >>
    THEN [reason |-> IF Head(q) # 0 THEN "keyboard" ELSE "none",
          q |-> Tail(q), evald |-> << "keyboard" >>]
    ELSE [reason |-> "none", q |-> q, evald |-> << "keyboard" >>]

\* if not signal_mode: try: if q.get_nowait(): break; except queue.Empty: pass
KeyboardStage ==
    IF signal_mode
    THEN [reason |-> "none", q |-> q, evald |-> << >>]
    ELSE IF q # << >>
    THEN [reason |-> IF Head(q) # 0 THEN "keyboard" ELSE "none",
          q |-> Tail(q), evald |-> << "keyboard" >>]
    ELSE [reason |-> "none", q |-> q, evald |-> << "keyboard" >>]

\* TimeoutStage with > for >=
TimeoutStage_Strict ==
    IF ~TimeoutArmed
    THEN KeyboardStage
    ELSE IF now - t0 > timeout
    THEN [reason |-> "timeout", q |-> q, evald |-> << "timeout" >>]
    ELSE [KeyboardStage EXCEPT !.evald = << "timeout" >> \o @]

\* if timeout and (time.time() - t0) >= timeout: break
TimeoutStage ==
    IF ~TimeoutArmed
    THEN KeyboardStage
    ELSE IF now - t0 >= timeout
    THEN [reason |-> "timeout", q |-> q, evald |-> << "timeout" >>]
    ELSE [KeyboardStage EXCEPT !.evald = << "timeout" >> \o @]

\* VadStage with the timeout and keyboard checks made before the silence check
VadStage_SilenceLast ==
    IF ~vad_enabled
    THEN [reason |-> TimeoutStage.reason, q |-> TimeoutStage.q,
          evald |-> TimeoutStage.evald,
          has_speech |-> has_speech, silence_start |-> silence_start]
    ELSE IF TimeoutStage.reason # "none"
    THEN [reason |-> TimeoutStage.reason, q |-> TimeoutStage.q,
          evald |-> TimeoutStage.evald,
          has_speech |-> has_speech, silence_start |-> silence_start]
    ELSE [reason |-> IF VadStep.fire THEN "silence" ELSE "none",
          q |-> TimeoutStage.q,
          evald |-> TimeoutStage.evald \o << "silence" >>,
          has_speech |-> VadStep.has_speech,
          silence_start |-> VadStep.silence_start]

\* if vad_enabled: ... break
VadStage ==
    IF ~vad_enabled
    THEN [reason |-> TimeoutStage.reason, q |-> TimeoutStage.q,
          evald |-> TimeoutStage.evald,
          has_speech |-> has_speech, silence_start |-> silence_start]
    ELSE IF VadStep.fire
    THEN [reason |-> "silence", q |-> q, evald |-> << "silence" >>,
          has_speech |-> VadStep.has_speech,
          silence_start |-> VadStep.silence_start]
    ELSE [reason |-> TimeoutStage.reason, q |-> TimeoutStage.q,
          evald |-> << "silence" >> \o TimeoutStage.evald,
          has_speech |-> VadStep.has_speech,
          silence_start |-> VadStep.silence_start]

\* TickOutcome without the signal check
TickOutcome_NoSignal ==
    VadStage

\* if signal_mode and signal_stop[0]: break      (the flag is read only in
\* signal mode), then the other checks
TickOutcome ==
    IF ~signal_mode
    THEN VadStage
    ELSE IF signal_stop
    THEN [reason |-> "signal", q |-> q, evald |-> << "signal" >>,
          has_speech |-> has_speech, silence_start |-> silence_start]
    ELSE [VadStage EXCEPT !.evald = << "signal" >> \o @]

\* Tick with the loop outside the with block: a break leaves the stream open
Tick_BreakLeavesOpen ==
    /\ pc = "loop"
    /\ (timeout # None \/ now < MaxTime)
    /\ has_speech' = TickOutcome.has_speech
    /\ silence_start' = TickOutcome.silence_start
    /\ q' = TickOutcome.q
    /\ evald' = TickOutcome.evald
    /\ reason' = TickOutcome.reason
    /\ speech_tick' = IF vad_enabled /\ ~(signal_mode /\ signal_stop) /\ lvl >= VAD_THRESHOLD
                      THEN now ELSE speech_tick
    /\ IF TickOutcome.reason # "none"
       THEN /\ pc' = "stopped"
            /\ stream_open' = stream_open
            /\ now' = now
       ELSE /\ pc' = "loop"
            /\ stream_open' = stream_open
            /\ \E d \in SleepUnits..MaxSleep : now' = now + d
    /\ UNCHANGED << side, verbose, pipeline, handler_output, delivered, renderer, signal_mode, vad_enabled, vad_silence_duration, stdin_is_tty,
                    handler_registered, signal_stop, rec, lvl, kbd, timeout,
                    t0, data >>

\* One iteration: the checks, then either a break, which leaves the with
\* block and so stops and closes the stream, or time.sleep(0.05).
\* The iteration reads the clock once: its calls of time.time() are taken
\* at the same instant, and time passes in the sleep.
\* Sessions with a hard timeout end by themselves; the others are followed
\* up to MaxTime.
Tick ==
    /\ pc = "loop"
    /\ (timeout # None \/ now < MaxTime)
    /\ has_speech' = TickOutcome.has_speech
    /\ silence_start' = TickOutcome.silence_start
    /\ q' = TickOutcome.q
    /\ evald' = TickOutcome.evald
    /\ reason' = TickOutcome.reason
    /\ speech_tick' = IF vad_enabled /\ ~(signal_mode /\ signal_stop) /\ lvl >= VAD_THRESHOLD
                      THEN now ELSE speech_tick
    /\ IF TickOutcome.reason # "none"
       THEN /\ pc' = "stopped"
            /\ stream_open' = FALSE
            /\ now' = now
       ELSE /\ pc' = "loop"
            /\ stream_open' = stream_open
            /\ \E d \in SleepUnits..MaxSleep : now' = now + d
    /\ UNCHANGED << side, verbose, pipeline, handler_output, delivered, renderer, signal_mode, vad_enabled, vad_silence_duration, stdin_is_tty,
                    handler_registered, signal_stop, rec, lvl, kbd, timeout,
                    t0, data >>

\* DeviceError without the with block: the stream is left as it is
DeviceError_LeavesOpen ==
    /\ pc \in {"open", "loop"}
    /\ pc' = "failed"
    /\ reason' = "error"
    /\ stream_open' = stream_open
    /\ data' = NoData
    /\ UNCHANGED << side, verbose, pipeline, handler_output, delivered, renderer,
                    signal_mode, vad_enabled, vad_silence_duration, stdin_is_tty,
                    handler_registered, signal_stop, rec, lvl, q, kbd, timeout,
                    silence_start, has_speech, t0, now, evald, speech_tick >>

\* DeviceError returning what was buffered before the exception
DeviceError_ReturnsBuffer ==
    /\ pc \in {"open", "loop"}
    /\ pc' = "failed"
    /\ reason' = "error"
    /\ stream_open' = FALSE
    /\ data' = IF rec # << >> THEN SomeData(Concatenate(rec)) ELSE NoData
    /\ UNCHANGED << side, verbose, pipeline, handler_output, delivered, renderer,
                    signal_mode, vad_enabled, vad_silence_duration, stdin_is_tty,
                    handler_registered, signal_stop, rec, lvl, q, kbd, timeout,
                    silence_start, has_speech, t0, now, evald, speech_tick >>

\* except Exception: the stream fails to open, or an exception is raised in
\* the loop; record() prints it and returns None
DeviceError ==
    /\ pc \in {"open", "loop"}
    /\ pc' = "failed"
    /\ reason' = "error"
    /\ stream_open' = FALSE
    /\ data' = NoData
    /\ UNCHANGED << side, verbose, pipeline, handler_output, delivered, renderer, signal_mode, vad_enabled, vad_silence_duration, stdin_is_tty,
                    handler_registered, signal_stop, rec, lvl, q, kbd, timeout,
                    silence_start, has_speech, t0, now, evald, speech_tick >>

\* after the loop: three pulses, start_proc() (which starts the prog thread),
\* then the buffer is concatenated
Finalize ==
    /\ pc = "stopped"
    /\ now' = now + 2 * PulseCount * PulseSleep
    /\ data' = IF rec # << >> THEN SomeData(Concatenate(rec)) ELSE NoData
    /\ pc' = "returned"
    /\ renderer' = "running"
    /\ UNCHANGED << side, verbose, pipeline, handler_output, delivered, signal_mode, vad_enabled, vad_silence_duration, stdin_is_tty,
                    handler_registered, signal_stop, rec, lvl, q, kbd, timeout,
                    silence_start, has_speech, t0, stream_open, reason, evald,
                    speech_tick >>

----------------------------------------------------------------------------
(* main() after record() (listen.py:717-772) *)

\* what every step below leaves alone: the state of the recording
recording == << signal_mode, vad_enabled, vad_silence_duration, stdin_is_tty,
                handler_registered, signal_stop, rec, lvl, q, kbd, timeout,
                silence_start, has_speech, t0, now, stream_open, reason, evald,
                data, speech_tick, verbose, handler_output, delivered >>

\* NoAudio never true: main() goes on whatever record() returned
NoAudio_Never ==
    FALSE

\* if data is None or len(data) == 0
NoAudio ==
    data.isNone \/ Len(data.samples) = 0

\* data = record(start_proc); if data is None or len(data) == 0: sys.exit(1)
MainCheck ==
    /\ pc \in {"returned", "failed"}
    /\ IF NoAudio
       THEN pc' = "exited" /\ exit_code' = 1
       ELSE pc' = "package" /\ exit_code' = exit_code
    /\ UNCHANGED << side, recording, renderer, run, tmp, engine_loads, engine_calls, raised >>

\* tmp = tempfile.NamedTemporaryFile(suffix='.wav', delete=False)
CreateTemp ==
    /\ pc = "package"
    /\ tmp' = "exists"
    /\ pc' = "write"
    /\ UNCHANGED << side, recording, renderer, run, engine_loads, engine_calls,
                    exit_code, raised >>

\* with wave.open(tmp.name, 'wb') as w: ... w.writeframes(...)
WriteWav ==
    /\ pc = "write"
    /\ pc' = "load"
    /\ UNCHANGED << side, recording, renderer, pipeline >>

\* wave.open or writeframes raises: the statement is outside main()'s try,
\* so the exception ends the process
WavError ==
    /\ pc = "write"
    /\ raised' = "wav"
    /\ exit_code' = 1
    /\ pc' = "exited"
    /\ UNCHANGED << side, recording, renderer, run, tmp, engine_loads, engine_calls >>

\* transcribe(): m = whisper.load_model(model)
LoadModel ==
    /\ pc = "load"
    /\ engine_loads' = engine_loads + 1
    /\ pc' = "run"
    /\ UNCHANGED << side, recording, renderer, run, tmp, engine_calls, exit_code, raised >>

\* AfterEngineError with the exception swallowed: main() goes on to the output
AfterEngineError_Swallowed ==
    [pc |-> "output", exit_code |-> None]

\* What becomes of an exception raised in transcribe(): try/finally without
\* except lets it out, and main() has except Exception: sys.exit(1), then
\* its finally.
AfterEngineError ==
    [pc |-> "finally", exit_code |-> 1]

\* whisper.load_model raises
LoadError ==
    /\ pc = "load"
    /\ engine_loads' = engine_loads + 1
    /\ raised' = "load"
    /\ pc' = AfterEngineError.pc
    /\ exit_code' = AfterEngineError.exit_code
    /\ UNCHANGED << side, recording, renderer, run, tmp, engine_calls >>

\* transcribe(): r = m.transcribe(path, ...); return r
EngineRun ==
    /\ pc = "run"
    /\ engine_calls' = engine_calls + 1
    /\ pc' = "output"
    /\ UNCHANGED << side, recording, renderer, run, tmp, engine_loads, exit_code, raised >>

\* m.transcribe raises, after sys.stderr = P()
EngineError ==
    /\ pc = "run"
    /\ engine_calls' = engine_calls + 1
    /\ raised' = "engine"
    /\ sys_stderr' = "P"
    /\ pc' = AfterEngineError.pc
    /\ exit_code' = AfterEngineError.exit_code
    /\ UNCHANGED << pct, blink_state, marker, lines_out, sink, cfg, cli, saver, bars,
                    recording, renderer, run, tmp, engine_loads >>

\* print(text), or the claude command run with success
Output ==
    /\ pc = "output"
    /\ exit_code' = 0
    /\ pc' = "finally"
    /\ UNCHANGED << side, recording, renderer, run, tmp, engine_loads, engine_calls, raised >>

\* subprocess.CalledProcessError: sys.exit(1)
ClaudeError ==
    /\ pc = "output"
    /\ raised' = "claude"
    /\ exit_code' = 1
    /\ pc' = "finally"
    /\ UNCHANGED << side, recording, renderer, run, tmp, engine_loads, engine_calls >>

\* finally: run[0] = False; os.unlink(tmp.name)
MainFinally ==
    /\ pc = "finally"
    /\ run' = FALSE
    /\ tmp' = "deleted"
    /\ pc' = "exited"
    /\ UNCHANGED << side, recording, renderer, engine_loads, engine_calls, exit_code, raised >>

\* prog(): while run[0] ends
RendererExit ==
    /\ renderer = "running"
    /\ ~run
    /\ renderer' = "done"
    /\ UNCHANGED << side, recording, pc, pipeline >>

\* the steps of the main thread
MainThread ==
    \/ MainStart \/ RecordStart \/ OpenStream \/ Tick \/ Finalize
    \/ MainCheck \/ CreateTemp \/ WriteWav \/ LoadModel \/ EngineRun
    \/ Output \/ MainFinally

Next ==
    \/ MainStart
    \/ RecordStart
    \/ OpenStream
    \/ Tick
    \/ Finalize
    \/ DeviceError
    \/ SignalHandler
    \/ AudioCb
    \/ KbdEnter
    \/ KbdSpace
    \/ MainCheck
    \/ CreateTemp
    \/ WriteWav
    \/ WavError
    \/ LoadModel
    \/ LoadError
    \/ EngineRun
    \/ EngineError
    \/ Output
    \/ ClaudeError
    \/ MainFinally
    \/ RendererExit

Spec == Init /\ [][Next]_vars

\* the main thread is never starved: it runs whenever it has a step to take
FairSpec == Spec /\ WF_vars(MainThread)

----------------------------------------------------------------------------
(* The processing phase in detail: start_proc(), the prog thread and        *)
(* transcribe() with its stderr bridge P, as main() runs them for           *)
(* "listen -f FILE" (listen.py:633-686); a recording session runs the same  *)
(* start_proc() and transcribe() (listen.py:703-715, 734).                  *)
(* A line of engine output is a sequence of characters.                     *)

\* the renderer is followed for this many iterations
MaxBlink == 13

\* the engine writes at most this many lines in a session
MaxLines == 2

\* lines have at most this many characters
MaxLineLen == 4

\* the characters lines are made of
Chars == {"0", "1", "5", "%", " "}

Lines == UNION { [1..n -> Chars] : n \in 0..MaxLineLen }

\* \d
Digits == <<"0", "1", "2", "3", "4", "5", "6", "7", "8", "9">>

IsDigit(c) == \E d \in DOMAIN Digits : Digits[d] = c

DigitValue(c) == (CHOOSE d \in DOMAIN Digits : Digits[d] = c) - 1

\* int(x.group(1))
RECURSIVE ParseInt(_)
ParseInt(ds) ==
    IF ds = << >> THEN 0
    ELSE 10 * ParseInt(SubSeq(ds, 1, Len(ds) - 1)) + DigitValue(ds[Len(ds)])

\* the last position of the run of digits that begins at position i
RunEnd(txt, i) ==
    CHOOSE j \in i..Len(txt) :
        /\ \A k \in i..j : IsDigit(txt[k])
        /\ (j = Len(txt) \/ ~IsDigit(txt[j + 1]))

\* the positions at which (\d+)% matches
MatchStarts(txt) ==
    { i \in 1..Len(txt) :
        /\ IsDigit(txt[i])
        /\ RunEnd(txt, i) < Len(txt)
        /\ txt[RunEnd(txt, i) + 1] = "%" }

\* re.search(r'(\d+)%', txt): the number of the leftmost match, None without one
Search(txt) ==
    IF MatchStarts(txt) = {} THEN None
    ELSE LET i == CHOOSE m \in MatchStarts(txt) : \A o \in MatchStarts(txt) : m <= o
         IN  ParseInt(SubSeq(txt, i, RunEnd(txt, i)))

\* what re.search finds in the lines the engine can write
Parsed == { Search(txt) : txt \in Lines }

\* pct[0] = 0.2 after the model is loaded
PctLoaded == 200

\* pct[0] = 1.0 after m.transcribe has returned
PctDone == 1000

\* the share of the bar left to the transcription, 0.8
PctSpan == 800

\* Progress with the percentage taken as the whole bar
Progress_Unscaled(n) ==
    (n * PctDone) \div 100

\* 0.2 + int(x.group(1)) / 100.0 * 0.8
Progress(n) ==
    PctLoaded + (n * PctSpan) \div 100

\* the renderer shows the blinking bar's first half period
BlinkPeriod == 6

\* (blink_state[0] // 6) % 2 != 0
BlinkOn(b) ==
    (b \div BlinkPeriod) % 2 # 0

\* main() in file mode is about to call start_proc()
ProcessingInit ==
    /\ signal_mode = FALSE
    /\ vad_enabled = FALSE
    /\ vad_silence_duration = VAD_DEFAULT_DURATION * TicksPerSec
    /\ stdin_is_tty \in BOOLEAN
    /\ pc = "file"
    /\ handler_registered = FALSE
    /\ signal_stop = FALSE
    /\ rec = << >>
    /\ lvl = 0
    /\ q = << >>
    /\ kbd = "idle"
    /\ timeout = None
    /\ silence_start = None
    /\ has_speech = FALSE
    /\ t0 = None
    /\ now = 0
    /\ stream_open = FALSE
    /\ reason = "none"
    /\ evald = << >>
    /\ data = NoData
    /\ speech_tick = None
    /\ verbose = FALSE
    /\ handler_output = FALSE
    /\ delivered = << >>
    /\ run = TRUE
    /\ renderer = "idle"
    /\ tmp = "none"
    /\ engine_loads = 0
    /\ engine_calls = 0
    /\ exit_code = None
    /\ raised = "none"
    /\ ProgressIdle
    /\ SinkIdle
    /\ ConfigIdle
    /\ OthersIdle

\* what the processing phase leaves alone
offstage == << recording, tmp, sink, cfg, cli, saver, bars >>

\* start_proc(): threading.Thread(target=prog, daemon=True).start(); pct[0] = 0.0
StartProc ==
    /\ pc = "file"
    /\ renderer' = "running"
    /\ pct' = 0
    /\ pc' = "t_load"
    /\ UNCHANGED << offstage, run, engine_loads, engine_calls, exit_code, raised,
                    blink_state, marker, lines_out, sys_stderr >>

\* prog(): one iteration of while run[0]; draw() only reads pct and blink_state
Prog ==
    /\ renderer = "running"
    /\ run
    /\ blink_state < MaxBlink
    /\ blink_state' = blink_state + 1
    /\ UNCHANGED << offstage, pc, pipeline, renderer, pct, marker, lines_out,
                    sys_stderr >>

\* transcribe(): m = whisper.load_model(model)
TLoadModel ==
    /\ pc = "t_load"
    /\ engine_loads' = engine_loads + 1
    /\ pc' = "t_wait"
    /\ UNCHANGED << offstage, run, renderer, engine_calls, exit_code, raised, progress >>

\* whisper.load_model raises: transcribe()'s finally, then main()'s except
TLoadError ==
    /\ pc = "t_load"
    /\ engine_loads' = engine_loads + 1
    /\ raised' = "load"
    /\ exit_code' = 1
    /\ pc' = "f_finally"
    /\ UNCHANGED << offstage, run, renderer, engine_calls, progress >>

\* while (blink_state[0] // 6) % 2 != 0: time.sleep(0.01), then pct[0] = 0.2
\* and sys.stderr = P()
TBlinkWait ==
    /\ pc = "t_wait"
    /\ ~BlinkOn(blink_state)
    /\ pct' = PctLoaded
    /\ sys_stderr' = "P"
    /\ pc' = "t_engine"
    /\ UNCHANGED << offstage, pipeline, renderer, blink_state, marker, lines_out >>

\* P.write(txt), called for a line m.transcribe writes to stderr
PWrite ==
    /\ pc = "t_engine"
    /\ lines_out < MaxLines
    /\ \E n \in Parsed :
         /\ pct' = IF n # None THEN Progress(n) ELSE pct
         /\ marker' = IF n # None THEN n ELSE marker
    /\ lines_out' = lines_out + 1
    /\ UNCHANGED << offstage, pc, pipeline, renderer, blink_state, sys_stderr >>

\* m.transcribe returns: sys.stderr = old; pct[0] = 1.0; return r
TEngineDone ==
    /\ pc = "t_engine"
    /\ engine_calls' = engine_calls + 1
    /\ pct' = PctDone
    /\ sys_stderr' = "real"
    /\ pc' = "f_output"
    /\ UNCHANGED << offstage, run, renderer, engine_loads, exit_code, raised,
                    blink_state, marker, lines_out >>

\* m.transcribe raises: transcribe()'s finally, then main()'s except
TEngineError ==
    /\ pc = "t_engine"
    /\ engine_calls' = engine_calls + 1
    /\ raised' = "engine"
    /\ exit_code' = 1
    /\ pc' = "f_finally"
    /\ UNCHANGED << offstage, run, renderer, engine_loads, progress >>

\* print(text), or claude ran
FileOutput ==
    /\ pc = "f_output"
    /\ exit_code' = 0
    /\ pc' = "f_finally"
    /\ UNCHANGED << offstage, run, renderer, engine_loads, engine_calls, raised, progress >>

\* subprocess.run raises CalledProcessError: sys.exit(1)
FileClaudeError ==
    /\ pc = "f_output"
    /\ raised' = "claude"
    /\ exit_code' = 1
    /\ pc' = "f_finally"
    /\ UNCHANGED << offstage, run, renderer, engine_loads, engine_calls, progress >>

\* finally: run[0] = False
FileFinally ==
    /\ pc = "f_finally"
    /\ run' = FALSE
    /\ pc' = "exited"
    /\ UNCHANGED << offstage, renderer, engine_loads, engine_calls, exit_code,
                    raised, progress >>

ProcessingNext ==
    \/ StartProc
    \/ Prog
    \/ RendererExit
    \/ TLoadModel
    \/ TLoadError
    \/ TBlinkWait
    \/ PWrite
    \/ TEngineDone
    \/ TEngineError
    \/ FileOutput
    \/ FileClaudeError
    \/ FileFinally

ProcessingSpec == ProcessingInit /\ [][ProcessingNext]_vars

----------------------------------------------------------------------------
(* The status sink (spec 4.6). A snapshot is a sequence of SnapshotLen      *)
(* parts, each carrying the number of the publish that wrote it; the        *)
(* publisher writes it part by part to the sibling temporary path and       *)
(* renames that path over the destination. A reader reads the destination   *)
(* at any moment.                                                           *)

\* the publisher is followed for this many publishes
MaxPublish == 6

\* a snapshot is written in this many parts
SnapshotLen == 4

\* no session is running: the state of main() and record() before they start
NoSession ==
    /\ signal_mode = FALSE
    /\ vad_enabled = FALSE
    /\ vad_silence_duration = VAD_DEFAULT_DURATION * TicksPerSec
    /\ stdin_is_tty = TRUE
    /\ pc = "none"
    /\ handler_registered = FALSE
    /\ signal_stop = FALSE
    /\ rec = << >>
    /\ lvl = 0
    /\ q = << >>
    /\ kbd = "idle"
    /\ timeout = None
    /\ silence_start = None
    /\ has_speech = FALSE
    /\ t0 = None
    /\ now = 0
    /\ stream_open = FALSE
    /\ reason = "none"
    /\ evald = << >>
    /\ data = NoData
    /\ speech_tick = None
    /\ verbose = FALSE
    /\ handler_output = FALSE
    /\ delivered = << >>
    /\ run = TRUE
    /\ renderer = "idle"
    /\ tmp = "none"
    /\ engine_loads = 0
    /\ engine_calls = 0
    /\ exit_code = None
    /\ raised = "none"
    /\ OthersIdle

\* a sink is configured and nothing has been published
StatusInit ==
    /\ NoSession
    /\ ProgressIdle
    /\ ConfigIdle
    /\ sink_dest = << >>
    /\ sink_tmp = << >>
    /\ sink_pc = "idle"
    /\ sink_seq = 0
    /\ reader_saw = << >>

\* what the status sink leaves alone
session == << recording, pc, pipeline, renderer, cli, saver, bars >>

\* publish: a new snapshot is made and the temporary path is created empty
PublishBegin ==
    /\ sink_pc = "idle"
    /\ sink_seq < MaxPublish
    /\ sink_seq' = sink_seq + 1
    /\ sink_tmp' = << >>
    /\ sink_pc' = "writing"
    /\ UNCHANGED << session, progress, cfg, sink_dest, reader_saw >>

\* PublishWrite writing the snapshot to the destination path itself
PublishWrite_InPlace ==
    /\ sink_pc = "writing"
    /\ Len(sink_tmp) < SnapshotLen
    /\ sink_tmp' = Append(sink_tmp, sink_seq)
    /\ sink_dest' = sink_tmp'
    /\ UNCHANGED << session, progress, cfg, sink_pc, sink_seq, reader_saw >>

\* publish: the next part of the snapshot is written to the temporary path
PublishWrite ==
    /\ sink_pc = "writing"
    /\ Len(sink_tmp) < SnapshotLen
    /\ sink_tmp' = Append(sink_tmp, sink_seq)
    /\ UNCHANGED << session, progress, cfg, sink_dest, sink_pc, sink_seq, reader_saw >>

\* publish: the temporary path is renamed over the destination path
PublishRename ==
    /\ sink_pc = "writing"
    /\ Len(sink_tmp) = SnapshotLen
    /\ sink_dest' = sink_tmp
    /\ sink_tmp' = << >>
    /\ sink_pc' = "idle"
    /\ UNCHANGED << session, progress, cfg, sink_seq, reader_saw >>

\* an external observer reads the destination path
ReadDest ==
    /\ sink_pc # "off"
    /\ reader_saw # sink_dest
    /\ reader_saw' = sink_dest
    /\ UNCHANGED << session, progress, cfg, sink_dest, sink_tmp, sink_pc, sink_seq >>

StatusNext ==
    \/ PublishBegin
    \/ PublishWrite
    \/ PublishRename
    \/ ReadDest

StatusSpec == StatusInit /\ [][StatusNext]_vars

----------------------------------------------------------------------------
(* config.py. A Python value is a record of its type t, its text s (str),   *)
(* its number n (int and bool as such, float in thousandths) and its items  *)
(* d (dict); a dict is a function from the keys it has to values.           *)

PyStr(x) == [t |-> "str", s |-> x, n |-> 0, d |-> << >>]
PyInt(k) == [t |-> "int", s |-> "", n |-> k, d |-> << >>]
PyFloat(k) == [t |-> "float", s |-> "", n |-> k, d |-> << >>]
PyBool(b) == [t |-> "bool", s |-> "", n |-> IF b THEN 1 ELSE 0, d |-> << >>]
PyNone == [t |-> "NoneType", s |-> "", n |-> 0, d |-> << >>]
PyDict(items) == [t |-> "dict", s |-> "", n |-> 0, d |-> items]

\* the dict with no key
EmptyDict == [k \in {} |-> PyNone]

\* isinstance(v, dict), isinstance(v, str), isinstance(v, bool)
IsDict(v) == v.t = "dict"
IsStr(v) == v.t = "str"
IsBool(v) == v.t = "bool"

\* isinstance(v, int): bool is a subclass of int
IsInt(v) == v.t \in {"int", "bool"}

\* isinstance(v, (int, float))
IsNumber(v) == v.t \in {"int", "bool", "float"}

\* dict.get(key)
Get(c, key) == IF key \in DOMAIN c THEN c[key] ELSE PyNone

\* c with c[key] = v
SetKey(c, key, v) == [k \in DOMAIN c \cup {key} |-> IF k = key THEN v ELSE c[k]]

\* c without key
DelKey(c, key) == [k \in DOMAIN c \ {key} |-> c[k]]

\* get_defaults()
get_defaults ==
    [ language |-> PyStr("en"),
      model |-> PyStr("base"),
      claude |-> PyBool(FALSE),
      verbose |-> PyBool(FALSE),
      signal_mode |-> PyBool(FALSE),
      codevoice |-> PyBool(FALSE),
      vad |-> PyDict([ enabled |-> PyBool(FALSE),
                     silence_duration |-> PyFloat(2000),
                     threshold |-> PyFloat(15) ]),
      server |-> PyDict([ enabled |-> PyBool(FALSE),
                        host |-> PyStr("0.0.0.0"),
                        port |-> PyInt(5000) ]),
      audio |-> PyDict([ sample_rate |-> PyInt(16000),
                       channels |-> PyInt(1),
                       dtype |-> PyStr("float32") ]) ]

\* deep_merge replacing a nested dict as a whole
deep_merge_Shallow(base, overlay) ==
    [k \in DOMAIN base \cup DOMAIN overlay |->
        IF k \in DOMAIN overlay THEN overlay[k] ELSE base[k]]

\* deep_merge(base, overlay)
RECURSIVE deep_merge(_, _)
deep_merge(base, overlay) ==
    [k \in DOMAIN base \cup DOMAIN overlay |->
        IF k \notin DOMAIN overlay THEN base[k]
        ELSE IF k \in DOMAIN base /\ IsDict(base[k]) /\ IsDict(overlay[k])
             THEN PyDict(deep_merge(base[k].d, overlay[k].d))
             ELSE overlay[k]]

\* merge_config applying the file over the command line
merge_config_FileLast(defaults, file_config, cli_args) ==
    deep_merge(deep_merge(defaults, cli_args), file_config)

\* merge_config(defaults, file_config, cli_args)
merge_config(defaults, file_config, cli_args) ==
    deep_merge(deep_merge(defaults, file_config), cli_args)

\* valid_models
valid_models == {"tiny", "base", "small", "medium", "large"}

\* the smallest and the largest port validate_config accepts
PortMin == 1
PortMax == 65535

\* what validate_config returns: (True, None), or (False, message) with the
\* key the message names; or the exception it raises
Accept == [ok |-> TRUE, key |-> "", raised |-> "none"]
Reject(key) == [ok |-> FALSE, key |-> key, raised |-> "none"]
Raise(e) == [ok |-> FALSE, key |-> "", raised |-> e]

\* the first key of keys, taken in order, that is not a boolean in config
RECURSIVE FirstNonBool(_, _)
FirstNonBool(config, keys) ==
    IF keys = << >> THEN ""
    ELSE IF ~IsBool(Get(config, Head(keys))) THEN Head(keys)
    ELSE FirstNonBool(config, Tail(keys))

\* validate_config: if 'server' in config
ValidateServer(config) ==
    IF "server" \notin DOMAIN config THEN Accept
    ELSE IF ~IsDict(config["server"]) THEN Raise("AttributeError")
    ELSE LET server == config["server"].d
         IN  IF ~IsBool(Get(server, "enabled")) THEN Reject("server.enabled")
             ELSE IF ~IsStr(Get(server, "host")) THEN Reject("server.host")
             ELSE IF ~IsInt(Get(server, "port")) THEN Reject("server.port")
             ELSE IF ~(PortMin <= server["port"].n /\ server["port"].n <= PortMax)
                  THEN Reject("server.port")
             ELSE Accept

\* validate_config: if 'vad' in config, then the server checks
ValidateVad(config) ==
    IF "vad" \notin DOMAIN config THEN ValidateServer(config)
    ELSE IF ~IsDict(config["vad"]) THEN Raise("AttributeError")
    ELSE LET vad == config["vad"].d
         IN  IF ~IsBool(Get(vad, "enabled")) THEN Reject("vad.enabled")
             ELSE IF ~IsNumber(Get(vad, "silence_duration"))
                  THEN Reject("vad.silence_duration")
             ELSE IF ~IsNumber(Get(vad, "threshold")) THEN Reject("vad.threshold")
             ELSE ValidateServer(config)

\* validate_config accepting any model
validate_config_AnyModel(config) ==
    IF ~IsStr(Get(config, "language")) THEN Reject("language")
    ELSE IF FirstNonBool(config, <<"claude", "verbose", "signal_mode">>) # ""
         THEN Reject(FirstNonBool(config, <<"claude", "verbose", "signal_mode">>))
    ELSE ValidateVad(config)

\* validate_config(config)
validate_config(config) ==
    IF ~IsStr(Get(config, "language")) THEN Reject("language")
    ELSE IF ~(IsStr(Get(config, "model")) /\ Get(config, "model").s \in valid_models)
         THEN Reject("model")
    ELSE IF FirstNonBool(config, <<"claude", "verbose", "signal_mode">>) # ""
         THEN Reject(FirstNonBool(config, <<"claude", "verbose", "signal_mode">>))
    ELSE ValidateVad(config)

----------------------------------------------------------------------------
(* Calls of the pure functions of config.py: the arguments are drawn in the *)
(* initial state and one step makes the call.                               *)

\* the values the layers of a merge give to a key
MergeLeaves == {PyStr("x"), PyStr("y")}

\* the nested dicts of the layers
MergeDicts == UNION { [ks -> MergeLeaves] : ks \in SUBSET {"enabled", "threshold"} }

\* a layer has the key "model" or not, and the key "vad", with a plain value
\* or a nested dict, or not
Layers ==
    { m @@ v :
        m \in {EmptyDict} \cup { "model" :> x : x \in MergeLeaves },
        v \in {EmptyDict} \cup { "vad" :> PyStr("x") }
                \cup { "vad" :> PyDict(f) : f \in MergeDicts } }

\* a change of one key of a config: top-level when sub is "", nested otherwise;
\* del removes the key
Change(top, sub, v) == [top |-> top, sub |-> sub, v |-> v, del |-> FALSE]
Delete(top, sub) == [top |-> top, sub |-> sub, v |-> PyNone, del |-> TRUE]

\* the change can be made: the nested dict it changes is there
Applicable(c, ch) ==
    ch.sub = "" \/ (ch.top \in DOMAIN c /\ IsDict(c[ch.top]))

\* config[top] = v, config[top][sub] = v, del config[top], del config[top][sub]
Apply(c, ch) ==
    IF ch.sub = ""
    THEN IF ch.del THEN DelKey(c, ch.top) ELSE SetKey(c, ch.top, ch.v)
    ELSE SetKey(c, ch.top,
                PyDict(IF ch.del THEN DelKey(c[ch.top].d, ch.sub)
                       ELSE SetKey(c[ch.top].d, ch.sub, ch.v)))

\* changes that keep a valid config valid
BenignChanges ==
    { Change("language", "", PyStr("es")),
      Change("model", "", PyStr("tiny")),
      Change("model", "", PyStr("large")),
      Change("claude", "", PyBool(TRUE)),
      Change("signal_mode", "", PyBool(TRUE)),
      Change("vad", "silence_duration", PyInt(3)),
      Change("vad", "silence_duration", PyFloat(500)),
      Change("server", "port", PyInt(PortMin)),
      Change("server", "port", PyInt(PortMax)),
      Delete("audio", "") }

\* changes of the four kinds validate_config is to reject, with the key each
\* one spoils
BadModel ==
    { Change("model", "", v) : v \in {PyStr("huge"), PyStr(""), PyNone, PyInt(1)} }
        \cup { Delete("model", "") }
BadPort ==
    { Change("server", "port", PyInt(k)) : k \in {0 - 1, PortMin - 1, PortMax + 1} }
BadBool(key) ==
    { Change(key, "", v) : v \in {PyStr("true"), PyInt(1), PyNone} }
        \cup { Delete(key, "") }
BadDuration ==
    { Change("vad", "silence_duration", v) :
        v \in {PyStr("2"), PyNone, PyDict(EmptyDict)} }
        \cup { Delete("vad", "silence_duration") }

\* other changes
OtherChanges ==
    { Change("language", "", PyInt(5)),
      Change("vad", "", PyStr("on")),
      Change("vad", "enabled", PyStr("yes")),
      Change("vad", "threshold", PyStr("low")),
      Change("vad", "silence_duration", PyBool(TRUE)),
      Change("server", "", PyNone),
      Change("server", "host", PyInt(0)),
      Change("server", "port", PyStr("80")),
      Change("server", "port", PyFloat(80000)),
      Change("server", "port", PyBool(TRUE)),
      Delete("vad", ""),
      Delete("server", "") }

BoolKeys == {"claude", "verbose", "signal_mode"}

AllChanges ==
    BenignChanges \cup BadModel \cup BadPort \cup BadDuration \cup OtherChanges
        \cup UNION { BadBool(key) : key \in BoolKeys }

\* the defaults and the configs one benign change away from them
ValidConfigs == {get_defaults} \cup { Apply(get_defaults, ch) : ch \in BenignChanges }

\* the configs validate_config is called with
ValidateInputs ==
    ValidConfigs
        \cup { Apply(c, ch) : c \in ValidConfigs, ch \in AllChanges }

FunctionsInit ==
    /\ NoSession
    /\ ProgressIdle
    /\ SinkIdle
    /\ cfg_file = NoFile
    /\ cfg_op = "call"
    /\ cfg_out = << >>
    /\ cfg_in \in { <<"merge_config", d, f, c>> : d \in Layers, f \in Layers, c \in Layers }
                    \cup { <<"validate_config", c>> : c \in ValidateInputs }

\* result = merge_config(defaults, file_config, cli_args)
MergeConfig ==
    /\ cfg_op = "call"
    /\ cfg_in[1] = "merge_config"
    /\ cfg_op' = "merge_config"
    /\ cfg_out' = merge_config(cfg_in[2], cfg_in[3], cfg_in[4])
    /\ UNCHANGED << session, progress, sink, cfg_file, cfg_in >>

\* is_valid, error = validate_config(config)
ValidateConfig ==
    /\ cfg_op = "call"
    /\ cfg_in[1] = "validate_config"
    /\ cfg_op' = "validate_config"
    /\ cfg_out' = validate_config(cfg_in[2])
    /\ UNCHANGED << session, progress, sink, cfg_file, cfg_in >>

FunctionsNext ==
    \/ MergeConfig
    \/ ValidateConfig

FunctionsSpec == FunctionsInit /\ [][FunctionsNext]_vars

----------------------------------------------------------------------------
(* The config file and the functions of config.py that read and write it.  *)
(* A JSON document is a record of its kind j, its text s (strings; for      *)
(* numbers whether the literal has a fraction part), its number n and its   *)
(* members m (objects).                                                     *)

\* json.dump writing a bool as the number it is
RECURSIVE ToJson_BoolAsNumber(_)
ToJson_BoolAsNumber(v) ==
    CASE v.t = "str" -> [j |-> "string", s |-> v.s, n |-> 0, m |-> << >>]
      [] v.t = "bool" -> [j |-> "number", s |-> "integer", n |-> v.n, m |-> << >>]
      [] v.t = "int" -> [j |-> "number", s |-> "integer", n |-> v.n, m |-> << >>]
      [] v.t = "float" -> [j |-> "number", s |-> "fraction", n |-> v.n, m |-> << >>]
      [] v.t = "NoneType" -> [j |-> "null", s |-> "", n |-> 0, m |-> << >>]
      [] v.t = "dict" -> [j |-> "object", s |-> "", n |-> 0,
                          m |-> [k \in DOMAIN v.d |-> ToJson_BoolAsNumber(v.d[k])]]

\* json.dump(config, f, indent=2): the document written for a value
RECURSIVE ToJson(_)
ToJson(v) ==
    CASE v.t = "str" -> [j |-> "string", s |-> v.s, n |-> 0, m |-> << >>]
      [] v.t = "bool" -> [j |-> IF v.n = 1 THEN "true" ELSE "false",
                          s |-> "", n |-> 0, m |-> << >>]
      [] v.t = "int" -> [j |-> "number", s |-> "integer", n |-> v.n, m |-> << >>]
      [] v.t = "float" -> [j |-> "number", s |-> "fraction", n |-> v.n, m |-> << >>]
      [] v.t = "NoneType" -> [j |-> "null", s |-> "", n |-> 0, m |-> << >>]
      [] v.t = "dict" -> [j |-> "object", s |-> "", n |-> 0,
                          m |-> [k \in DOMAIN v.d |-> ToJson(v.d[k])]]

\* json.load(f): the value read from a document
RECURSIVE FromJson(_)
FromJson(doc) ==
    CASE doc.j = "string" -> PyStr(doc.s)
      [] doc.j = "true" -> PyBool(TRUE)
      [] doc.j = "false" -> PyBool(FALSE)
      [] doc.j = "number" -> IF doc.s = "integer" THEN PyInt(doc.n) ELSE PyFloat(doc.n)
      [] doc.j = "null" -> PyNone
      [] doc.j = "object" -> PyDict([k \in DOMAIN doc.m |-> FromJson(doc.m[k])])

\* a file holding the JSON document of a value
JsonFile(v) == [kind |-> "json", doc |-> ToJson(v)]

\* a file of text that is no JSON document (an empty or truncated file too)
TextFile == [kind |-> "text", doc |-> << >>]

\* a file whose bytes are no text in the encoding open() uses
BytesFile == [kind |-> "bytes", doc |-> << >>]

\* what a call returned, which exception it caught on the way, and which
\* exception it raised instead of returning
Returned(v) == [ret |-> v, caught |-> "none", raised |-> "none"]
ReturnedAfter(e, v) == [ret |-> v, caught |-> e, raised |-> "none"]
Raised(e) == [ret |-> PyNone, caught |-> "none", raised |-> e]

\* the configs save_config is called with
SaveInputs ==
    { get_defaults,
      EmptyDict,
      "language" :> PyStr("es"),
      "vad" :> PyDict("enabled" :> PyBool(TRUE)),
      ("vad" :> PyStr("on")) @@ ("model" :> PyNone),
      Apply(get_defaults, Change("server", "port", PyInt(8080))),
      Apply(Apply(get_defaults, Change("vad", "silence_duration", PyInt(3))),
            Change("claude", "", PyBool(TRUE))),
      Apply(get_defaults, Change("extra", "", PyDict("deep" :> PyFloat(500)))) }

\* the program starts with any file, or none, at the path
ConfigInit ==
    /\ NoSession
    /\ ProgressIdle
    /\ SinkIdle
    /\ cfg_file \in {NoFile, TextFile, BytesFile, JsonFile(PyInt(5))}
                      \cup { JsonFile(PyDict(c)) : c \in SaveInputs }
    /\ cfg_op = "none"
    /\ cfg_in = << >>
    /\ cfg_out = << >>

\* load_config() when the file, if there is one, can be opened: the defaults
\* without a file; json.load raises JSONDecodeError, which is caught, or
\* UnicodeDecodeError, which is not; deep_merge raises on a document that is
\* no object
LoadResult(file) ==
    CASE file.kind = "absent" -> Returned(PyDict(get_defaults))
      [] file.kind = "text" -> ReturnedAfter("JSONDecodeError", PyDict(get_defaults))
      [] file.kind = "bytes" -> Raised("UnicodeDecodeError")
      [] file.kind = "json" ->
            IF file.doc.j = "object"
            THEN Returned(PyDict(deep_merge(get_defaults, FromJson(file.doc).d)))
            ELSE Raised("AttributeError")

\* load_config()
LoadConfig ==
    /\ cfg_op' = "load_config"
    /\ cfg_in' = << >>
    /\ cfg_out' = LoadResult(cfg_file)
    /\ UNCHANGED << session, progress, sink, cfg_file >>

\* load_config(): open() or read() raises IOError
LoadConfigIOError ==
    /\ cfg_file # NoFile
    /\ cfg_op' = "load_config"
    /\ cfg_in' = << >>
    /\ cfg_out' = ReturnedAfter("IOError", PyDict(get_defaults))
    /\ UNCHANGED << session, progress, sink, cfg_file >>

\* what the caller of save_config may pass: a config of its own, or the one
\* load_config has just returned
Saveable ==
    SaveInputs \cup
        (IF cfg_op = "load_config" /\ cfg_out.raised = "none" THEN {cfg_out.ret.d} ELSE {})

\* save_config(config)
SaveConfig ==
    /\ \E c \in Saveable :
         /\ cfg_in' = <<c>>
         /\ cfg_file' = JsonFile(PyDict(c))
    /\ cfg_op' = "save_config"
    /\ cfg_out' = Returned(PyBool(TRUE))
    /\ UNCHANGED << session, progress, sink >>

\* save_config(config): the directory cannot be made or open() raises IOError
\* and the file is as before, or the write raises it and the file is cut short
SaveConfigError ==
    /\ \E c \in Saveable : cfg_in' = <<c>>
    /\ cfg_file' \in {cfg_file, TextFile}
    /\ cfg_op' = "save_config"
    /\ cfg_out' = ReturnedAfter("IOError", PyBool(FALSE))
    /\ UNCHANGED << session, progress, sink >>

\* reset_config that reports success and leaves the file
ResetConfig_KeepsFile ==
    /\ cfg_op' = "reset_config"
    /\ cfg_in' = << >>
    /\ cfg_file' = cfg_file
    /\ cfg_out' = Returned(PyBool(TRUE))
    /\ UNCHANGED << session, progress, sink >>

\* reset_config(): os.remove if the file exists
ResetConfig ==
    /\ cfg_op' = "reset_config"
    /\ cfg_in' = << >>
    /\ cfg_file' = NoFile
    /\ cfg_out' = Returned(PyBool(TRUE))
    /\ UNCHANGED << session, progress, sink >>

\* reset_config(): os.remove raises OSError
ResetConfigError ==
    /\ cfg_file # NoFile
    /\ cfg_op' = "reset_config"
    /\ cfg_in' = << >>
    /\ cfg_out' = ReturnedAfter("OSError", PyBool(FALSE))
    /\ UNCHANGED << session, progress, sink, cfg_file >>

ConfigNext ==
    \/ LoadConfig
    \/ LoadConfigIOError
    \/ SaveConfig
    \/ SaveConfigError
    \/ ResetConfig
    \/ ResetConfigError

ConfigSpec == ConfigInit /\ [][ConfigNext]_vars

----------------------------------------------------------------------------
(* main() from the command line to the mode it runs (listen.py:488-690).    *)
(* A command line is a sequence of words; file_path is the empty sequence   *)
(* for None and the one-word sequence of the path otherwise.                *)

\* a command line has at most this many words after the program name
MaxArgs == 3

\* the words of the command lines of main(): options it knows, one it does
\* not know, paths, a number, the empty word
MainWords == {"-f", "-s", "-l", "--vad", "-h", "-j", "a.wav", "dir", "gone", "", "3"}

\* the sequences over S of length at most n
SeqsUpTo(S, n) == UNION { [1..k -> S] : k \in 0..n }

\* the file system: os.path.exists(p) and os.path.isfile(p)
PathKind(p) ==
    CASE p = "a.wav" -> "file"
      [] p = "dir" -> "dir"
      [] OTHER -> "absent"

\* float(word) and int(word) return for these words and raise ValueError
\* for the others
Numerals == {"3", "0", "8080", "70000"}

\* int(word)
IntOf(word) ==
    CASE word = "3" -> 3
      [] word = "0" -> 0
      [] word = "8080" -> 8080
      [] word = "70000" -> 70000

\* float(word), in thousandths
FloatOf(word) == IntOf(word) * 1000

\* bool(v), as an if statement takes a value
Truthy(v) ==
    CASE v.t \in {"bool", "int", "float"} -> v.n # 0
      [] v.t = "str" -> v.s # ""
      [] v.t = "NoneType" -> FALSE
      [] v.t = "dict" -> DOMAIN v.d # {}

\* if top not in c: c[top] = {}; c[top][sub] = v
SetSub(c, top, sub, v) ==
    SetKey(c, top,
           PyDict(SetKey(IF top \in DOMAIN c THEN c[top].d ELSE EmptyDict, sub, v)))

\* what the argument loop has made so far
NoArgs == [cli_args |-> EmptyDict, file_path |-> << >>, raised |-> "none"]

\* while i < len(args): the argument loop of main(), from the word at i (the
\* words are numbered from 1); float() and int() may raise ValueError, which
\* nothing catches
RECURSIVE ParseArgs(_, _, _)
ParseArgs(args, i, st) ==
    IF i > Len(args) THEN st
    ELSE
    LET arg == args[i]
        more == i + 1 <= Len(args)
    IN
    IF arg \in {"-l", "--language"} /\ more
    THEN ParseArgs(args, i + 2,
                   [st EXCEPT !.cli_args = SetKey(@, "language", PyStr(args[i + 1]))])
    ELSE IF arg \in {"-m", "--model"} /\ more
    THEN ParseArgs(args, i + 2,
                   [st EXCEPT !.cli_args = SetKey(@, "model", PyStr(args[i + 1]))])
    ELSE IF arg \in {"-c", "--claude"}
    THEN ParseArgs(args, i + 1,
                   [st EXCEPT !.cli_args = SetKey(@, "claude", PyBool(TRUE))])
    ELSE IF arg \in {"-s", "--server"}
    THEN ParseArgs(args, i + 1,
                   [st EXCEPT !.cli_args = SetSub(@, "server", "enabled", PyBool(TRUE))])
    ELSE IF arg \in {"-f", "--file"} /\ more
    THEN ParseArgs(args, i + 2, [st EXCEPT !.file_path = << args[i + 1] >>])
    ELSE IF arg = "--signal-mode"
    THEN ParseArgs(args, i + 1,
                   [st EXCEPT !.cli_args = SetKey(@, "signal_mode", PyBool(TRUE))])
    ELSE IF arg = "--vad" /\ more
    THEN IF args[i + 1] \notin Numerals
         THEN [st EXCEPT !.raised = "ValueError"]
         ELSE ParseArgs(args, i + 2,
                  [st EXCEPT !.cli_args =
                       SetSub(SetSub(@, "vad", "enabled", PyBool(TRUE)),
                              "vad", "silence_duration", PyFloat(FloatOf(args[i + 1])))])
    ELSE IF arg = "--host" /\ more
    THEN ParseArgs(args, i + 2,
                   [st EXCEPT !.cli_args = SetSub(@, "server", "host", PyStr(args[i + 1]))])
    ELSE IF arg = "--port" /\ more
    THEN IF args[i + 1] \notin Numerals
         THEN [st EXCEPT !.raised = "ValueError"]
         ELSE ParseArgs(args, i + 2,
                  [st EXCEPT !.cli_args =
                       SetSub(@, "server", "port", PyInt(IntOf(args[i + 1])))])
    ELSE IF arg \in {"-v", "--verbose"}
    THEN ParseArgs(args, i + 1,
                   [st EXCEPT !.cli_args = SetKey(@, "verbose", PyBool(TRUE))])
    ELSE ParseArgs(args, i + 1, st)

\* the words of the command lines of handle_config_command
ConfigWords == {"-l", "-m", "tiny", "huge", "--vad", "3", "0", "--port", "70000",
                "--claude", "--reset", "--show", "--bogus"}

\* what the argument loop of handle_config_command has made so far: the
\* changes, the value it returns at once (None while it goes on) and the
\* exception it raises
NoChanges == [changes |-> EmptyDict, ret |-> None, raised |-> "none"]

\* if top not in changes: changes[top] = current_config.get(top, {}).copy();
\* changes[top][sub] = v    (called where the entry of current_config is a dict)
CopySub(current_config, changes, top, sub, v) ==
    LET copy == IF top \in DOMAIN changes THEN changes[top].d
                ELSE IF top \in DOMAIN current_config THEN current_config[top].d
                ELSE EmptyDict
    IN  SetKey(changes, top, PyDict(SetKey(copy, sub, v)))

\* current_config.get(top, {}).copy() raises AttributeError: the entry is a
\* str, a number or None
NoCopy(current_config, changes, top) ==
    /\ top \notin DOMAIN changes
    /\ top \in DOMAIN current_config
    /\ ~IsDict(current_config[top])

\* while i < len(args): the argument loop of handle_config_command, from the
\* word at i (the words are numbered from 1)
RECURSIVE ParseChanges(_, _, _, _)
ParseChanges(args, i, current_config, st) ==
    IF i > Len(args) THEN st
    ELSE
    LET arg == args[i]
        more == i + 1 <= Len(args)
        Stop == [st EXCEPT !.ret = 1]
    IN
    IF arg \in {"-l", "--language"}
    THEN IF ~more THEN Stop
         ELSE ParseChanges(args, i + 2, current_config,
                  [st EXCEPT !.changes = SetKey(@, "language", PyStr(args[i + 1]))])
    ELSE IF arg \in {"-m", "--model"}
    THEN IF ~more THEN Stop
         ELSE IF args[i + 1] \notin valid_models THEN Stop
         ELSE ParseChanges(args, i + 2, current_config,
                  [st EXCEPT !.changes = SetKey(@, "model", PyStr(args[i + 1]))])
    ELSE IF arg = "--vad"
    THEN IF ~more THEN Stop
         ELSE IF args[i + 1] \notin Numerals THEN Stop
         ELSE IF FloatOf(args[i + 1]) <= 0 THEN Stop
         ELSE IF NoCopy(current_config, st.changes, "vad")
              THEN [st EXCEPT !.raised = "AttributeError"]
         ELSE ParseChanges(args, i + 2, current_config,
                  [st EXCEPT !.changes =
                       CopySub(current_config,
                               CopySub(current_config, @, "vad", "enabled", PyBool(TRUE)),
                               "vad", "silence_duration", PyFloat(FloatOf(args[i + 1])))])
    ELSE IF arg = "--host"
    THEN IF ~more THEN Stop
         ELSE IF NoCopy(current_config, st.changes, "server")
              THEN [st EXCEPT !.raised = "AttributeError"]
         ELSE ParseChanges(args, i + 2, current_config,
                  [st EXCEPT !.changes =
                       CopySub(current_config, @, "server", "host", PyStr(args[i + 1]))])
    ELSE IF arg = "--port"
    THEN IF ~more THEN Stop
         ELSE IF args[i + 1] \notin Numerals THEN Stop
         ELSE IF ~(PortMin <= IntOf(args[i + 1]) /\ IntOf(args[i + 1]) <= PortMax) THEN Stop
         ELSE IF NoCopy(current_config, st.changes, "server")
              THEN [st EXCEPT !.raised = "AttributeError"]
         ELSE ParseChanges(args, i + 2, current_config,
                  [st EXCEPT !.changes =
                       CopySub(current_config, @, "server", "port", PyInt(IntOf(args[i + 1])))])
    ELSE IF arg \in {"--claude", "--verbose", "--signal-mode"}
    THEN LET key == CASE arg = "--claude" -> "claude"
                      [] arg = "--verbose" -> "verbose"
                      [] arg = "--signal-mode" -> "signal_mode"
         IN  ParseChanges(args, i + 1, current_config,
                  [st EXCEPT !.changes =
                       SetKey(@, key, PyBool(~Truthy(Get(current_config, key))))])
    ELSE Stop

\* what a call of handle_config_command comes to when the file system does
\* what it is asked: the value returned, the exception raised instead, and
\* the file it leaves; reset says that it called reset_config, save that it
\* called save_config
Outcome(r, e, f, resets, saves) ==
    [ret |-> r, raised |-> e, file |-> f, reset |-> resets, save |-> saves]

\* handle_config_command(args) with the config file being file
handle_config_command(args, file) ==
    LET loaded == LoadResult(file)
        st == ParseChanges(args, 1, loaded.ret.d, NoChanges)
        updated_config == deep_merge(loaded.ret.d, st.changes)
        valid == validate_config(updated_config)
    IN
    IF args = << >> \/ args[1] \in {"-h", "--help"}
    THEN Outcome(0, "none", file, FALSE, FALSE)
    ELSE IF "--show" \in { args[k] : k \in DOMAIN args }
    THEN IF loaded.raised # "none"
         THEN Outcome(None, loaded.raised, file, FALSE, FALSE)
         ELSE Outcome(0, "none", file, FALSE, FALSE)
    ELSE IF "--reset" \in { args[k] : k \in DOMAIN args }
    THEN Outcome(0, "none", NoFile, TRUE, FALSE)
    ELSE IF loaded.raised # "none"
    THEN Outcome(None, loaded.raised, file, FALSE, FALSE)
    ELSE IF st.raised # "none"
    THEN Outcome(None, st.raised, file, FALSE, FALSE)
    ELSE IF st.ret # None
    THEN Outcome(st.ret, "none", file, FALSE, FALSE)
    ELSE IF DOMAIN st.changes = {}
    THEN Outcome(0, "none", file, FALSE, FALSE)
    ELSE IF valid.raised # "none"
    THEN Outcome(None, valid.raised, file, FALSE, FALSE)
    ELSE IF ~valid.ok
    THEN Outcome(1, "none", file, FALSE, FALSE)
    ELSE Outcome(0, "none", JsonFile(PyDict(updated_config)), FALSE, TRUE)

\* the config files main() may find
MainFiles ==
    { NoFile,
      BytesFile,
      JsonFile(PyDict("server" :> PyDict("enabled" :> PyBool(TRUE)))),
      JsonFile(PyDict("vad" :> PyDict(("enabled" :> PyBool(TRUE))
                                        @@ ("threshold" :> PyFloat(50))))),
      JsonFile(PyDict("vad" :> PyStr("on"))) }

\* a silence duration of the configuration in units of time
Units(v) ==
    IF v.t = "float" THEN (v.n * TicksPerSec) \div 1000 ELSE v.n * TicksPerSec

\* the program is started: the module's globals have their initial values
MainInit ==
    /\ signal_mode = FALSE
    /\ vad_enabled = FALSE
    /\ vad_silence_duration = VAD_DEFAULT_DURATION * TicksPerSec
    /\ stdin_is_tty \in BOOLEAN
    /\ pc = "argv"
    /\ handler_registered = FALSE
    /\ signal_stop = FALSE
    /\ rec = << >>
    /\ lvl = 0
    /\ q = << >>
    /\ kbd = "idle"
    /\ timeout = None
    /\ silence_start = None
    /\ has_speech = FALSE
    /\ t0 = None
    /\ now = 0
    /\ stream_open = FALSE
    /\ reason = "none"
    /\ evald = << >>
    /\ data = NoData
    /\ speech_tick = None
    /\ verbose = FALSE
    /\ handler_output = FALSE
    /\ delivered = << >>
    /\ run = TRUE
    /\ renderer = "idle"
    /\ tmp = "none"
    /\ engine_loads = 0
    /\ engine_calls = 0
    /\ exit_code = None
    /\ raised = "none"
    /\ ProgressIdle
    /\ SinkIdle
    /\ SaverIdle
    /\ BarsIdle
    /\ cfg_file \in MainFiles
    /\ cfg_op = "none"
    /\ cfg_in = << >>
    /\ cfg_out = << >>
    /\ argv \in SeqsUpTo(MainWords, MaxArgs)
                 \cup { <<"config">> \o a : a \in SeqsUpTo(ConfigWords, MaxArgs) }
    /\ cli_opts = << >>
    /\ file_path = << >>
    /\ final_config = << >>

\* what main() leaves alone before it runs a mode
backstage == << handler_registered, signal_stop, rec, lvl, q, kbd, timeout,
                silence_start, has_speech, t0, now, stream_open, reason, evald,
                data, speech_tick, handler_output, delivered, run, tmp,
                engine_loads, engine_calls, progress, sink, saver, bars,
                stdin_is_tty, argv >>

\* the globals main() assigns from the merged configuration
globals == << signal_mode, vad_enabled, vad_silence_duration, verbose >>

\* if sys.argv[1] in ['-h', '--help']: the usage is printed and main() returns
MainHelp ==
    /\ pc = "argv"
    /\ Len(argv) > 0
    /\ argv[1] \in {"-h", "--help"}
    /\ exit_code' = 0
    /\ pc' = "exited"
    /\ UNCHANGED << backstage, globals, renderer, raised, cfg, cli_opts, file_path,
                    final_config >>

\* if sys.argv[1] == 'config': sys.exit(handle_config_command(sys.argv[2:]))
MainConfigCommand ==
    /\ pc = "argv"
    /\ Len(argv) > 0
    /\ argv[1] = "config"
    /\ LET out == handle_config_command(Tail(argv), cfg_file)
       IN  /\ cfg_file' = out.file
           /\ cfg_op' = "handle_config_command"
           /\ cfg_in' = << cfg_file >>
           /\ cfg_out' = out
           /\ raised' = out.raised
           /\ exit_code' = IF out.raised = "none" THEN out.ret ELSE 1
    /\ pc' = "exited"
    /\ UNCHANGED << backstage, globals, renderer, cli_opts, file_path, final_config >>

\* handle_config_command when save_config returns False: the directory cannot
\* be made or open() raises IOError and the file is as before, or the write
\* raises it and the file is cut short
MainConfigSaveFails ==
    /\ pc = "argv"
    /\ Len(argv) > 0
    /\ argv[1] = "config"
    /\ LET out == handle_config_command(Tail(argv), cfg_file)
       IN  /\ out.save
           /\ cfg_file' \in {cfg_file, TextFile}
           /\ cfg_op' = "handle_config_command"
           /\ cfg_in' = << cfg_file >>
           /\ cfg_out' = [out EXCEPT !.ret = 1, !.file = cfg_file']
           /\ raised' = "none"
           /\ exit_code' = 1
    /\ pc' = "exited"
    /\ UNCHANGED << backstage, globals, renderer, cli_opts, file_path, final_config >>

\* handle_config_command when reset_config returns False: os.remove raises
\* OSError
MainConfigResetFails ==
    /\ pc = "argv"
    /\ Len(argv) > 0
    /\ argv[1] = "config"
    /\ cfg_file # NoFile
    /\ LET out == handle_config_command(Tail(argv), cfg_file)
       IN  /\ out.reset
           /\ cfg_file' = cfg_file
           /\ cfg_op' = "handle_config_command"
           /\ cfg_in' = << cfg_file >>
           /\ cfg_out' = [out EXCEPT !.ret = 1, !.file = cfg_file]
           /\ raised' = "none"
           /\ exit_code' = 1
    /\ pc' = "exited"
    /\ UNCHANGED << backstage, globals, renderer, cli_opts, file_path, final_config >>

\* the argument loop
MainParse ==
    /\ pc = "argv"
    /\ ~(Len(argv) > 0 /\ argv[1] \in {"-h", "--help", "config"})
    /\ LET st == ParseArgs(argv, 1, NoArgs)
       IN  /\ cli_opts' = st.cli_args
           /\ file_path' = st.file_path
           /\ raised' = st.raised
           /\ IF st.raised = "none"
              THEN pc' = "merge" /\ exit_code' = exit_code
              ELSE pc' = "exited" /\ exit_code' = 1
    /\ UNCHANGED << backstage, globals, renderer, cfg, final_config >>

\* file_config = config.load_config(); final_config = config.merge_config(...);
\* then the values are taken out of it: final_config['vad']['enabled'] raises
\* TypeError when the entry is no dict
MainMerge ==
    /\ pc = "merge"
    /\ cfg_op' = "load_config"
    /\ cfg_in' = << >>
    /\ cfg_out' = LoadResult(cfg_file)
    /\ LET merged == merge_config(get_defaults, cfg_out'.ret.d, cli_opts)
           taken == IsDict(merged["vad"]) /\ IsDict(merged["server"])
       IN  IF cfg_out'.raised # "none"
           THEN /\ raised' = cfg_out'.raised
                /\ exit_code' = 1
                /\ pc' = "exited"
                /\ UNCHANGED << final_config, globals >>
           ELSE /\ final_config' = merged
                /\ verbose' = Truthy(merged["verbose"])
                /\ signal_mode' = Truthy(merged["signal_mode"])
                /\ IF taken
                   THEN /\ vad_enabled' = Truthy(merged["vad"].d["enabled"])
                        /\ vad_silence_duration' = Units(merged["vad"].d["silence_duration"])
                        /\ UNCHANGED << raised, exit_code >>
                        /\ pc' = "mode"
                   ELSE /\ raised' = "TypeError"
                        /\ exit_code' = 1
                        /\ pc' = "exited"
                        /\ UNCHANGED << vad_enabled, vad_silence_duration >>
    /\ UNCHANGED << backstage, renderer, cfg_file, cli_opts, file_path >>

\* server_mode = final_config['server']['enabled']
server_mode == Truthy(final_config["server"].d["enabled"])

\* if server_mode: start_server(...)
MainServer ==
    /\ pc = "mode"
    /\ server_mode
    /\ pc' = "server"
    /\ UNCHANGED << backstage, globals, renderer, raised, exit_code, cfg, cli >>

\* if file_path: None and the empty string do not pass
FileMode ==
    file_path # << >> /\ file_path[1] # ""

\* if not os.path.exists(file_path): print('Error: File not found'); sys.exit(1)
MainFileNotFound ==
    /\ pc = "mode"
    /\ ~server_mode
    /\ FileMode
    /\ PathKind(file_path[1]) = "absent"
    /\ raised' = "File not found"
    /\ exit_code' = 1
    /\ pc' = "exited"
    /\ UNCHANGED << backstage, globals, renderer, cfg, cli >>

\* if not os.path.isfile(file_path): print('Error: Not a file'); sys.exit(1)
MainNotAFile ==
    /\ pc = "mode"
    /\ ~server_mode
    /\ FileMode
    /\ PathKind(file_path[1]) = "dir"
    /\ raised' = "Not a file"
    /\ exit_code' = 1
    /\ pc' = "exited"
    /\ UNCHANGED << backstage, globals, renderer, cfg, cli >>

\* the file is there: main() goes on to start_proc() and transcribe()
MainFile ==
    /\ pc = "mode"
    /\ ~server_mode
    /\ FileMode
    /\ PathKind(file_path[1]) = "file"
    /\ pc' = "file"
    /\ UNCHANGED << backstage, globals, renderer, raised, exit_code, cfg, cli >>

\* neither: main() goes on to the recording session
MainRecord ==
    /\ pc = "mode"
    /\ ~server_mode
    /\ ~FileMode
    /\ pc' = "main"
    /\ UNCHANGED << backstage, globals, renderer, raised, exit_code, cfg, cli >>

MainNext ==
    \/ MainHelp
    \/ MainConfigCommand
    \/ MainConfigSaveFails
    \/ MainConfigResetFails
    \/ MainParse
    \/ MainMerge
    \/ MainServer
    \/ MainFileNotFound
    \/ MainNotAFile
    \/ MainFile
    \/ MainRecord
    \/ StartProc
    \/ TLoadModel
    \/ TLoadError
    \/ MainStart

MainSpec == MainInit /\ [][MainNext]_vars

----------------------------------------------------------------------------
(* The level bar of the listening phase (listen.py:152), at the grain of    *)
(* its two reads of lvl[0]: the filled cells are computed from the first,   *)
(* the blank cells from the second, and audio_cb runs on the device's       *)
(* thread and may assign lvl[0] between them. How the loop ends is left to  *)
(* Spec: here it is followed while it runs.                                 *)

\* the bar has 10 cells
BarCells == 10

\* int(lvl[0] * 200), with the level in thousandths
Cells(level) == (level * 200) \div 1000

\* min(int(lvl[0] * 200), 10)
Filled(level) == IF Cells(level) < BarCells THEN Cells(level) ELSE BarCells

\* max(10 - int(lvl[0] * 200), 0)
Blank(level) == IF BarCells - Cells(level) > 0 THEN BarCells - Cells(level) ELSE 0

\* what the draw steps leave alone
undrawn == << progress, sink, cfg, cli, saver, pipeline, renderer, signal_mode,
              vad_enabled, vad_silence_duration, stdin_is_tty, handler_registered,
              signal_stop, rec, lvl, q, kbd, timeout, silence_start, has_speech,
              t0, stream_open, reason, evald, data, speech_tick, verbose,
              handler_output, delivered >>

\* '=' * min(int(lvl[0] * 200), 10): the first read of lvl[0]
DrawFilled ==
    /\ pc = "loop"
    /\ now < MaxTime
    /\ bars' = [bars EXCEPT !.filled = Filled(lvl)]
    /\ pc' = "draw"
    /\ UNCHANGED << undrawn, now >>

\* + ' ' * max(10 - int(lvl[0] * 200), 0): the second read of lvl[0], and
\* draw() of the string; then the checks, none of which stops the session,
\* and time.sleep(0.05)
DrawBlank ==
    /\ pc = "draw"
    /\ bars' = [filled |-> None, width |-> bars.filled + Blank(lvl)]
    /\ pc' = "loop"
    /\ \E d \in SleepUnits..MaxSleep : now' = now + d
    /\ UNCHANGED undrawn

BarNext ==
    \/ MainStart
    \/ RecordStart
    \/ OpenStream
    \/ AudioCb
    \/ DrawFilled
    \/ DrawBlank

BarSpec == Init /\ [][BarNext]_vars

----------------------------------------------------------------------------
(* save_config in one process and load_config in another. open(path, 'w')  *)
(* cuts the file to nothing and json.dump writes the document piece by      *)
(* piece: until the last piece is written the file holds a prefix of the    *)
(* document, which is no JSON document.                                     *)

\* what the other process's save_config leaves alone
unsaved == << recording, pc, pipeline, renderer, cli, bars, progress, sink,
              cfg_op, cfg_in, cfg_out >>

\* save_config(config) in the other process: with open(config_path, 'w') as f
SaverOpen ==
    /\ saver.pc \in {"off", "done"}
    /\ \E c \in SaveInputs :
         saver' = [pc |-> "writing", arg |-> c, old |-> cfg_file]
    /\ cfg_file' = TextFile
    /\ UNCHANGED unsaved

\* json.dump(config, f, indent=2) has written the last piece; return True
SaverWritten ==
    /\ saver.pc = "writing"
    /\ cfg_file' = JsonFile(PyDict(saver.arg))
    /\ saver' = [saver EXCEPT !.pc = "done"]
    /\ UNCHANGED unsaved

SharedNext ==
    \/ SaverOpen
    \/ SaverWritten
    \/ LoadConfig

SharedSpec == ConfigInit /\ [][SharedNext]_vars

----------------------------------------------------------------------------
(* Properties *)

Range(s) == { s[i] : i \in DOMAIN s }

\* a step of the loop: an iteration that breaks, or one that sleeps
TickStep == pc = "loop" /\ (pc' = "stopped" \/ now' # now)

\* the four stop conditions as the state before an iteration decides them
SignalTrue == signal_mode /\ signal_stop
SilenceTrue ==
    /\ vad_enabled
    /\ lvl < VAD_THRESHOLD
    /\ has_speech
    /\ silence_start # None
    /\ now - silence_start >= vad_silence_duration
TimeoutTrue == timeout # None /\ now - t0 >= timeout
KeyboardTrue == ~signal_mode /\ q # << >>

FirstTrue ==
    IF SignalTrue THEN "signal"
    ELSE IF SilenceTrue THEN "silence"
    ELSE IF TimeoutTrue THEN "timeout"
    ELSE IF KeyboardTrue THEN "keyboard"
    ELSE "none"

Rank(r) ==
    CASE r = "signal" -> 1
      [] r = "silence" -> 2
      [] r = "timeout" -> 3
      [] r = "keyboard" -> 4
      [] OTHER -> 5

\* C1: every loop iteration consults the stop sources in the order signal,
\* VAD silence, hard timeout, keyboard; it breaks with the first condition
\* that is true (and goes on only when none is), and consults nothing after
\* the break: the last source consulted is the one that broke, the keyboard
\* queue is left alone unless the keyboard broke, and a signal break leaves
\* the VAD variables alone.
C1_StopOrder ==
    [][ TickStep =>
          /\ reason' = FirstTrue
          /\ (reason' # "none" <=> pc' = "stopped")
          /\ \A i \in 1..(Len(evald') - 1) : Rank(evald'[i]) < Rank(evald'[i + 1])
          /\ (reason' # "none" => evald' # << >> /\ evald'[Len(evald')] = reason')
          /\ (reason' # "keyboard" => q' = q)
          /\ (reason' = "signal" =>
                has_speech' = has_speech /\ silence_start' = silence_start)
      ]_vars

\* a silence break taken while a key press was waiting in the queue: two
\* conditions true in the same iteration
C1_Witness ==
    pc = "stopped" /\ reason = "silence" /\ q # << >> /\ evald = << "silence" >>

\* the stop sources a session has armed
SignalArmed == handler_registered \/ "signal" \in Range(evald)
VadArmed == "silence" \in Range(evald)
KeyboardArmed == kbd \in {"started", "reading"} \/ "keyboard" \in Range(evald)
HardTimeoutArmed == timeout # None

\* C2 as stated: at most one of the three modes {signal, VAD, keyboard or
\* hard timeout} is armed in a session.
C2_ExactlyOneMode ==
    /\ ~(SignalArmed /\ VadArmed)
    /\ ~(SignalArmed /\ (KeyboardArmed \/ HardTimeoutArmed))
    /\ ~(VadArmed /\ (KeyboardArmed \/ HardTimeoutArmed))

\* C2 amended: the signal source is never armed together with the keyboard
\* listener or the hard timeout, and the VAD source never together with the
\* hard timeout; the VAD source may be armed together with the signal source
\* or with the keyboard listener.
C2_ExclusivePairs ==
    /\ ~(SignalArmed /\ (KeyboardArmed \/ HardTimeoutArmed))
    /\ ~(VadArmed /\ HardTimeoutArmed)

\* a VAD session whose keyboard listener is reading the terminal
C2_Witness ==
    pc = "loop" /\ VadArmed /\ kbd = "reading" /\ ~SignalArmed

\* C3: when the loop has stopped with a silence timeout, speech was observed
\* before, the silence timer is running and at least silence_duration has
\* elapsed since it was started.
C3_NoEarlySilence ==
    (pc = "stopped" /\ reason = "silence") =>
        /\ has_speech
        /\ speech_tick # None
        /\ silence_start # None
        /\ now - silence_start >= vad_silence_duration

\* a silence timeout of a session configured with a positive duration
C3_Witness ==
    /\ pc = "stopped"
    /\ reason = "silence"
    /\ vad_silence_duration > 0
    /\ now - silence_start >= vad_silence_duration

\* C4: in a VAD session in which no iteration has read a level at or above
\* the threshold, has_speech is false, no silence timer has been started and
\* the loop has not stopped with a silence timeout.
C4_NoSpeechNoTimeout ==
    (vad_enabled /\ speech_tick = None) =>
        /\ ~has_speech
        /\ silence_start = None
        /\ reason # "silence"

\* a VAD session followed to the end of the model's time, with blocks
\* delivered, in which only silence was read
C4_Witness ==
    /\ vad_enabled
    /\ pc = "loop"
    /\ now >= MaxTime
    /\ Len(rec) >= 2
    /\ speech_tick = None
    /\ evald # << >>

\* C5: a running silence timer was started after the last iteration that
\* read speech (reading speech discards the timer), so a silence timeout
\* comes a full silence_duration after a timer start that follows the last
\* speech: silence before that speech does not count.
C5_TimerRestarts ==
    /\ (silence_start # None =>
            has_speech /\ speech_tick # None /\ speech_tick < silence_start)
    /\ (pc = "stopped" /\ reason = "silence" =>
            /\ speech_tick < silence_start
            /\ now - silence_start >= vad_silence_duration)

\* a silence timeout after speech, silence, speech again and silence again
C5_Witness ==
    /\ pc = "stopped"
    /\ reason = "silence"
    /\ Len(rec) = 4
    /\ Rms(rec[1]) >= VAD_THRESHOLD
    /\ Rms(rec[2]) < VAD_THRESHOLD
    /\ Rms(rec[3]) >= VAD_THRESHOLD
    /\ Rms(rec[4]) < VAD_THRESHOLD
    /\ speech_tick >= t0 + 2
    /\ silence_start > speech_tick
    /\ vad_silence_duration > 0

\* an iteration that runs the VAD block with a timer running and reads silence
SilentTimerTick ==
    /\ TickStep
    /\ vad_enabled
    /\ ~(signal_mode /\ signal_stop)
    /\ silence_start # None
    /\ lvl < VAD_THRESHOLD

\* C6: with the silence timer running, an iteration that reads silence (and
\* is not stopped by the signal) breaks with a silence timeout exactly when
\* silence_duration has elapsed since the timer start, and otherwise goes on
\* with the timer unchanged: the break comes at the first such iteration
\* after the start. With the main thread running, a running timer leads to
\* the end of the loop or to the timer being discarded by speech (within the
\* time the model follows).
C6_SilenceStops ==
    /\ [][ SilentTimerTick =>
             IF now - silence_start >= vad_silence_duration
             THEN pc' = "stopped" /\ reason' = "silence"
             ELSE reason' # "silence" /\ silence_start' = silence_start
       ]_vars
    /\ ((pc = "loop" /\ silence_start # None)
          ~> (pc # "loop" \/ silence_start = None \/ now >= MaxTime))

\* a silence timeout on the iteration at which exactly silence_duration had elapsed
C6_Witness ==
    /\ pc = "stopped"
    /\ reason = "silence"
    /\ vad_silence_duration > 0
    /\ now - silence_start = vad_silence_duration

\* C7: a VAD session without signal mode has no hard timeout, and as long as
\* no iteration has read speech its loop is left only by a key press or an
\* error, on a terminal or not.
C7_VadNoAutoExit ==
    (vad_enabled /\ ~signal_mode) =>
        /\ (pc \notin {"main", "record"} => timeout = None)
        /\ (speech_tick = None => reason \in {"none", "keyboard", "error"})
        /\ (speech_tick = None /\ ~stdin_is_tty => reason \in {"none", "error"})

\* a piped VAD session still in its loop at the end of the model's time,
\* having read only silence
C7_Witness ==
    /\ vad_enabled
    /\ ~signal_mode
    /\ ~stdin_is_tty
    /\ pc = "loop"
    /\ now >= MaxTime
    /\ speech_tick = None
    /\ kbd = "done"
    /\ Len(rec) >= 1

\* C8: the hard timeout is armed only without a terminal, without signal
\* mode and without VAD; in every other session it is never armed, never
\* consulted, and never the reason the loop stops.
C8_TimeoutOnlyPiped ==
    /\ (timeout # None => ~stdin_is_tty /\ ~signal_mode /\ ~vad_enabled)
    /\ ((stdin_is_tty \/ signal_mode \/ vad_enabled) =>
            /\ reason # "timeout"
            /\ "timeout" \notin Range(evald))

\* a terminal session in the default mode that was stopped by a key press
C8_Witness ==
    /\ stdin_is_tty
    /\ ~signal_mode
    /\ ~vad_enabled
    /\ pc = "stopped"
    /\ reason = "keyboard"
    /\ now >= MaxTime - 1

\* a piped session in the default mode
PipedDefault == ~stdin_is_tty /\ ~signal_mode /\ ~vad_enabled

\* C9: a piped session in the default mode that stops without an error stops
\* by the hard timeout, with at least 10 s (and between 9.9 s and 10.5 s)
\* elapsed since the stream was opened; an iteration at which 10 s have
\* elapsed always breaks; and with the main thread running the session
\* comes to its end.
C9_PipedTimesOut ==
    /\ [](PipedDefault /\ pc \in {"stopped", "returned"} => reason = "timeout")
    /\ [](PipedDefault /\ pc = "stopped" =>
            /\ now - t0 >= HardTimeoutSec * TicksPerSec
            /\ 10 * (now - t0) >= 99 * TicksPerSec
            /\ 10 * (now - t0) <= 105 * TicksPerSec)
    /\ [][ (PipedDefault /\ TickStep) =>
             IF now - t0 >= HardTimeoutSec * TicksPerSec
             THEN pc' = "stopped" /\ reason' = "timeout"
             ELSE pc' = "loop"
       ]_vars
    /\ (PipedDefault => <>(pc \in {"returned", "failed"}))

\* a piped default session stopped by the hard timeout
C9_Witness ==
    /\ PipedDefault
    /\ pc = "stopped"
    /\ reason = "timeout"
    /\ now - t0 >= HardTimeoutSec * TicksPerSec
    /\ Len(rec) >= 1

\* C10: in a signal-mode session no keyboard listener is started, nothing is
\* put into the keyboard queue, the loop never polls it, and the loop is
\* left only by the signal, by a silence timeout when VAD is enabled as
\* well, or by an error.
C10_SignalNoKeyboard ==
    signal_mode =>
        /\ kbd = "idle"
        /\ q = << >>
        /\ "keyboard" \notin Range(evald)
        /\ reason \in {"none", "signal", "silence", "error"}
        /\ (reason = "silence" => vad_enabled)

\* a signal-mode session stopped by the signal after several iterations
C10_Witness ==
    /\ signal_mode
    /\ pc = "stopped"
    /\ reason = "signal"
    /\ now >= t0 + 2
    /\ kbd = "idle"

\* the main thread has left the recording loop
AfterLoop == pc \notin {"main", "record", "open", "loop"}

\* C11: in signal mode the stop flag, once set, stays set, and every loop
\* iteration that finds it set breaks through the signal branch, so the loop
\* is left at the first stop evaluation after the handler ran, also when it
\* ran before the stream was opened; without signal mode no handler is
\* registered, the flag is never set and the loop never consults it.
C11_SignalStops ==
    /\ [][ signal_stop => signal_stop' ]_vars
    /\ [][ (TickStep /\ signal_mode /\ signal_stop) =>
             (pc' = "stopped" /\ reason' = "signal") ]_vars
    /\ [](~signal_mode =>
            /\ ~handler_registered
            /\ ~signal_stop
            /\ "signal" \notin Range(evald)
            /\ reason # "signal")

\* the loop left through the signal branch at its first iteration, before
\* any block was delivered: the flag was set before the loop began
C11_Witness ==
    /\ signal_mode
    /\ pc = "stopped"
    /\ reason = "signal"
    /\ now = t0
    /\ delivered = << >>

\* C12 as stated: the signal handler performs no output in any configuration.
C12_HandlerNoOutput ==
    handler_output = FALSE

\* C13 as stated: when a session whose loop was left through one of the four
\* breaks is over, the device is released, the keyboard listener is not in
\* its read loop and the renderer is not running.
C13_NoTaskOutlives ==
    (pc = "exited" /\ reason \in {"keyboard", "signal", "silence", "timeout"}) =>
        /\ ~stream_open
        /\ kbd # "reading"
        /\ renderer # "running"

\* C14: once the loop has been left, through any break or through an
\* exception, the stream is closed (before record() returns), and while the
\* stream is not open no block is appended to the buffer.
C14_DeviceReleased ==
    /\ [](AfterLoop => ~stream_open)
    /\ [][ ~stream_open => (rec' = rec /\ delivered' = delivered) ]_vars

\* record() left by an exception with blocks buffered and the stream closed
C14_Witness ==
    /\ pc = "failed"
    /\ reason = "error"
    /\ Len(rec) >= 1
    /\ ~stream_open

\* C15: a session in which no block was delivered before the loop was left
\* creates no temporary file, never calls the engine, and exits with status 1.
C15_EmptyCapture ==
    (AfterLoop /\ delivered = << >>) =>
        /\ tmp = "none"
        /\ engine_loads = 0
        /\ engine_calls = 0
        /\ pc \in {"stopped", "returned", "failed", "exited"}
        /\ (pc = "exited" => exit_code = 1)

\* an empty session stopped by a silence-free reason and ended with status 1
C15_Witness ==
    /\ pc = "exited"
    /\ delivered = << >>
    /\ reason \in {"signal", "keyboard", "timeout"}
    /\ exit_code = 1

\* C16: after an exception in record() (the stream failing to open, or an
\* exception in the loop) record() returns None whatever was buffered, no
\* time is spent on the pulses, the renderer is not started, no temporary
\* file is created, the engine is never called and the exit status is 1.
C16_ErrorAborts ==
    /\ [](reason = "error" =>
            /\ data.isNone
            /\ renderer = "idle"
            /\ tmp = "none"
            /\ engine_loads = 0
            /\ engine_calls = 0
            /\ pc \in {"failed", "exited"}
            /\ (pc = "exited" => exit_code = 1))
    /\ [][ reason = "error" => now' = now ]_vars

\* a session ended by an exception in the loop after two blocks were buffered
C16_Witness ==
    /\ pc = "exited"
    /\ reason = "error"
    /\ Len(rec) >= 2
    /\ exit_code = 1

\* C17 as stated: when the session has ended, no temporary file it created
\* still exists.
C17_TempDeleted ==
    pc = "exited" => tmp # "exists"

\* C18: the engine is loaded and called at most once per session; an
\* exception of load_model or of m.transcribe is followed by no further
\* engine call and no output, and the session ends with status 1.
C18_EngineErrorPropagates ==
    /\ engine_loads <= 1
    /\ engine_calls <= 1
    /\ (raised \in {"load", "engine"} =>
            /\ pc \in {"finally", "exited"}
            /\ exit_code = 1
            /\ (raised = "load" => engine_calls = 0))

\* a session ended with status 1 by an exception of m.transcribe
C18_Witness ==
    /\ pc = "exited"
    /\ raised = "engine"
    /\ engine_calls = 1
    /\ exit_code = 1

\* the number of samples in the first k blocks of a sequence of blocks
RECURSIVE SamplesBefore(_, _)
SamplesBefore(blocks, k) ==
    IF k = 0 THEN 0 ELSE SamplesBefore(blocks, k - 1) + Len(blocks[k])

\* C19: what record() returns after a break holds the samples of exactly the
\* blocks delivered in the session, in the order of delivery: block k
\* occupies the positions after those of the blocks before it, the length is
\* the sum of the block lengths, and None is returned only when nothing was
\* delivered. The buffer is empty when the stream is opened.
C19_BufferIsConcatenation ==
    /\ (pc = "open" => rec = << >> /\ delivered = << >>)
    /\ ((AfterLoop /\ pc # "stopped" /\ reason # "error") =>
          /\ data.isNone <=> delivered = << >>
          /\ Len(data.samples) = SamplesBefore(delivered, Len(delivered))
          /\ \A k \in 1..Len(delivered) :
               \A j \in 1..Len(delivered[k]) :
                  data.samples[SamplesBefore(delivered, k - 1) + j] = delivered[k][j])

\* record() has returned the samples of three blocks, not all alike
C19_Witness ==
    /\ pc = "returned"
    /\ Len(delivered) = 3
    /\ delivered[1] # delivered[2]
    /\ Len(data.samples) = SamplesBefore(delivered, 3)

Processing == pc \in {"t_load", "t_wait", "t_engine", "f_output", "f_finally"}

\* C21: while m.transcribe runs, a line whose percentage is 0 has set the
\* progress to 0.2 and one whose percentage is 100 to 1.0 (200 and 1000
\* thousandths), every parsed percentage n has set it to 0.2 + 0.8 n / 100,
\* and a line whose percentage is not below the one parsed before does not
\* lower the progress.
C21_ProgressMapping ==
    /\ []((pc = "t_engine" /\ marker = 0) => pct = 200)
    /\ []((pc = "t_engine" /\ marker = 100) => pct = 1000)
    /\ []((pc = "t_engine" /\ marker # None) => 100 * (pct - 200) = 800 * marker)
    /\ [][ (pc = "t_engine" /\ pc' = "t_engine" /\ marker' >= marker) =>
             pct' >= pct ]_vars

\* two lines were written and the second carried 100%
C21_Witness ==
    /\ pc = "t_engine"
    /\ lines_out = 2
    /\ marker = 100
    /\ pct = 1000

\* C22 as stated: in the processing phase no step lowers the progress.
C22_ProgressMonotone ==
    [][ (Processing /\ Processing') => pct' >= pct ]_vars

\* C23 as stated: the progress always lies between 0 and 1.
C23_ProgressInRange ==
    0 <= pct /\ pct <= 1000

\* C24 as stated: the main thread never waits on what the renderer writes:
\* whenever transcribe() reaches its wait on blink_state, it can go on.
C24_RendererNoControl ==
    pc = "t_wait" => ENABLED TBlinkWait

\* a file holds one whole snapshot
Complete(f) == Len(f) = SnapshotLen /\ \A i \in 1..Len(f) : f[i] = f[1]

\* C25: whatever the publisher is doing, the destination path holds nothing
\* (before the first publish) or one whole snapshot, the one published last
\* or the one being published, and what a reader reads from it is a whole
\* snapshot, the previous or the new one.
C25_AtomicSnapshot ==
    /\ [](sink_dest # << >> =>
            /\ Complete(sink_dest)
            /\ sink_dest[1] \in {sink_seq - 1, sink_seq})
    /\ [](reader_saw # << >> => Complete(reader_saw))
    /\ [][ reader_saw' # reader_saw =>
             /\ Complete(reader_saw')
             /\ reader_saw'[1] \in {sink_seq - 1, sink_seq} ]_vars

\* a reader has read the previous snapshot while the next one is half written
C25_Witness ==
    /\ sink_pc = "writing"
    /\ Len(sink_tmp) = 2
    /\ sink_seq >= 2
    /\ reader_saw = sink_dest
    /\ Complete(reader_saw)
    /\ reader_saw[1] = sink_seq - 1

\* the largest number of a nonempty set of numbers
Max(S) == CHOOSE m \in S : \A o \in S : m >= o

\* C26: in what merge_config returns, a key has the value of the last layer
\* (defaults, then file, then command line) that provides it; when that value
\* is a dict, it is merged key by key with the dicts the layers below provide
\* for the key, down to the first layer that provides a value that is no
\* dict: each nested key has the value of the last of these layers that
\* provides it, so a layer that sets one nested key leaves the others as the
\* lower layers set them. No other key appears.
C26_MergePrecedence ==
    cfg_op = "merge_config" =>
        LET L == <<cfg_in[2], cfg_in[3], cfg_in[4]>>
            P(k) == { i \in 1..3 : k \in DOMAIN L[i] }
            top(k) == Max(P(k))
            floor(k) == Max({ i \in P(k) : ~IsDict(L[i][k]) } \cup {0})
            above(k) == { i \in P(k) : i > floor(k) }
        IN  /\ DOMAIN cfg_out = DOMAIN L[1] \cup DOMAIN L[2] \cup DOMAIN L[3]
            /\ \A k \in DOMAIN cfg_out :
                 IF ~IsDict(L[top(k)][k])
                 THEN cfg_out[k] = L[top(k)][k]
                 ELSE /\ IsDict(cfg_out[k])
                      /\ DOMAIN cfg_out[k].d =
                            UNION { DOMAIN L[i][k].d : i \in above(k) }
                      /\ \A sub \in DOMAIN cfg_out[k].d :
                           cfg_out[k].d[sub] =
                             L[Max({ i \in above(k) : sub \in DOMAIN L[i][k].d })][k].d[sub]

\* a merge in which the command line sets one nested key, the file the other
\* and the model, and the defaults all three, each to another value
C26_Witness ==
    /\ cfg_op = "merge_config"
    /\ cfg_in[2] = ("model" :> PyStr("x")) @@
                   ("vad" :> PyDict([enabled |-> PyStr("x"), threshold |-> PyStr("x")]))
    /\ cfg_in[3] = ("model" :> PyStr("y")) @@
                   ("vad" :> PyDict([threshold |-> PyStr("y")]))
    /\ cfg_in[4] = ("vad" :> PyDict([enabled |-> PyStr("y")]))
    /\ cfg_out = ("model" :> PyStr("y")) @@
                 ("vad" :> PyDict([enabled |-> PyStr("y"), threshold |-> PyStr("y")]))

\* the key a change of one of the four kinds spoils, as the message names it
Spoils(ch) ==
    IF ch.sub = "" THEN ch.top ELSE IF ch.top = "vad" THEN "vad.silence_duration"
    ELSE "server.port"

\* C30: validate_config returns (True, None) for the defaults, and for a
\* config that differs from a valid one by a model outside the five names, a
\* port outside 1..65535, a claude, verbose or signal_mode that is no boolean,
\* or a silence duration that is no number, it returns False with a message
\* that names that key.
C30_ValidateRejects ==
    cfg_op = "validate_config" =>
        /\ (cfg_in[2] = get_defaults => cfg_out = Accept)
        /\ \A c \in ValidConfigs :
             \A ch \in BadModel \cup BadPort \cup BadDuration
                         \cup UNION { BadBool(key) : key \in BoolKeys } :
                cfg_in[2] = Apply(c, ch) => cfg_out = Reject(Spoils(ch))

\* a config with the largest port and a model that is not one of the five
\* was rejected for its model
C30_Witness ==
    /\ cfg_op = "validate_config"
    /\ cfg_in[2] = Apply(Apply(get_defaults, Change("server", "port", PyInt(PortMax))),
                         Change("model", "", PyStr("huge")))
    /\ cfg_out = Reject("model")

\* c provides every key of the defaults, the nested ones too
ProvidesAll(c) ==
    \A k \in DOMAIN get_defaults :
        /\ k \in DOMAIN c
        /\ (IsDict(get_defaults[k]) /\ IsDict(c[k])) =>
              DOMAIN get_defaults[k].d \subseteq DOMAIN c[k].d

\* C27 as stated: when there is no file, or the file holds no JSON document,
\* load_config returns the defaults without raising, after a warning if
\* there is a file, and leaves the file as it was.
C27_LoadFallsBack ==
    [][ (cfg_op' = "load_config" /\ cfg_file.kind \in {"absent", "text", "bytes"}) =>
          /\ cfg_out'.raised = "none"
          /\ cfg_out'.ret = PyDict(get_defaults)
          /\ (cfg_file.kind # "absent" => cfg_out'.caught # "none")
          /\ cfg_file' = cfg_file ]_vars

\* a load_config that follows a save_config(c) that returned True
LoadAfterSave ==
    /\ cfg_op = "save_config"
    /\ cfg_out.ret = PyBool(TRUE)
    /\ cfg_op' = "load_config"

\* a save_config that returns True for the value load_config has just returned
SaveOfLoaded ==
    /\ cfg_op = "load_config"
    /\ cfg_out.raised = "none"
    /\ cfg_op' = "save_config"
    /\ cfg_in' = <<cfg_out.ret.d>>
    /\ cfg_out'.ret = PyBool(TRUE)

C29_ResetAlwaysReverts ==
    /\ [][ cfg_op' = "reset_config" =>
             /\ cfg_out' = Returned(PyBool(TRUE))
             /\ cfg_file' = NoFile ]_vars
    /\ [][ (cfg_op = "reset_config" /\ cfg_op' = "load_config") =>
             cfg_out' = Returned(PyDict(get_defaults)) ]_vars

\* C29, amended: reset_config returns True and leaves no file, unless
\* os.remove raises OSError: then it returns False and the file stays as it
\* was. Without a file it returns True and changes nothing. After a
\* reset_config that returned True, load_config returns the defaults.
C29_ResetReverts ==
    /\ [][ cfg_op' = "reset_config" =>
             \/ /\ cfg_out' = Returned(PyBool(TRUE))
                /\ cfg_file' = NoFile
             \/ /\ cfg_file # NoFile
                /\ cfg_out' = ReturnedAfter("OSError", PyBool(FALSE))
                /\ cfg_file' = cfg_file ]_vars
    /\ [][ (cfg_file = NoFile /\ cfg_op' = "reset_config") =>
             /\ cfg_out' = Returned(PyBool(TRUE))
             /\ cfg_file' = cfg_file ]_vars
    /\ [][ (cfg_op = "reset_config" /\ cfg_out.ret = PyBool(TRUE)
              /\ cfg_op' = "load_config") =>
             cfg_out' = Returned(PyDict(get_defaults)) ]_vars

\* reset_config has returned True and there is no file
C29_Witness ==
    /\ cfg_op = "reset_config"
    /\ cfg_out = Returned(PyBool(TRUE))
    /\ cfg_file = NoFile

\* C31: in file mode with server mode not enabled, a path that does not
\* exist or is no regular file makes the program exit with status 1 and an
\* error message, before the processing renderer is started and before the
\* engine is invoked, whatever else is on the command line.
C31_MissingFileExits ==
    (/\ file_path # << >>
     /\ PathKind(file_path[1]) # "file"
     /\ pc \notin {"argv", "merge", "mode"}
     /\ (final_config = << >> \/ ~server_mode))
        => (/\ pc = "exited"
            /\ exit_code = 1
            /\ raised # "none"
            /\ renderer = "idle"
            /\ engine_loads = 0)

\* C32 as stated: after a stop condition fires the steps come in the order
\* pulses, closing the device, concatenation, hand-off; the device is still
\* open while the three trailing pulses are drawn.
C32_PulsesBeforeClose ==
    [][pc = "stopped" /\ pc' = "returned" => stream_open]_vars

\* C32, amended: the step that leaves the loop on a stop condition closes the
\* device and does nothing else; the next step of the session draws the three
\* pulses with the device closed, starts the processing renderer and
\* concatenates the buffered blocks; packaging starts only after that.
C32_CloseBeforePulses ==
    [][/\ (pc = "loop" /\ pc' = "stopped")
            => (/\ ~stream_open'
                /\ now' = now
                /\ data' = NoData
                /\ renderer' = "idle")
       /\ (pc = "stopped" /\ pc' # "stopped")
            => (/\ ~stream_open
                /\ ~stream_open'
                /\ pc' = "returned"
                /\ now' = now + 2 * PulseCount * PulseSleep
                /\ renderer' = "running"
                /\ data' = IF rec = << >> THEN NoData ELSE SomeData(Concatenate(rec)))
       /\ (pc # "package" /\ pc' = "package")
            => (pc = "returned" /\ ~stream_open /\ ~data.isNone)]_vars

\* a session that was stopped has drawn its pulses and is handed to packaging
C32_Witness ==
    /\ pc = "package"
    /\ reason \in {"keyboard", "signal", "silence", "timeout"}
    /\ ~stream_open
    /\ now >= t0 + 2 * PulseCount * PulseSleep
    /\ data = SomeData(Concatenate(rec))

\* C33: the threshold and the silence duration the VAD of a session uses are
\* vad.threshold and vad.silence_duration of the merged configuration of that
\* session, from the start of the session on.
C33_VadParameters ==
    pc \in {"main", "record"}
        => LET vad == final_config["vad"].d
           IN  /\ "threshold" \in DOMAIN vad => vad_threshold = vad["threshold"].n
               /\ vad_silence_duration = Units(vad["silence_duration"])

\* c has every key of the defaults, and a dict with every nested key where
\* the defaults have a dict
HasDefaultKeys(c) ==
    \A k \in DOMAIN get_defaults :
        /\ k \in DOMAIN c
        /\ IsDict(get_defaults[k]) =>
              (IsDict(c[k]) /\ DOMAIN get_defaults[k].d \subseteq DOMAIN c[k].d)

\* C34: for every content of the config file, the configuration load_config
\* returns contains every top-level and every nested key of get_defaults().
C34_LoadHasAllKeys ==
    (cfg_op = "load_config" /\ cfg_out.raised = "none") => HasDefaultKeys(cfg_out.ret.d)

\* C35: the level bar drawn on a tick of the control loop is exactly 10 cells
\* wide, filled and blank cells together, for every level and under every
\* interleaving of the loop with the audio callback.
C35_BarWidth ==
    bars.width # None => bars.width = BarCells

\* C36: on every exit from transcribe(), by return or by an exception of the
\* model load or of the engine's transcribe call, sys.stderr is the stream it
\* was on entry.
C36_StderrRestored ==
    pc \in {"f_output", "f_finally", "exited"} => sys_stderr = "real"

\* C37: a load_config that runs while a save_config is running in another
\* process returns what it would return for the file as it was before the
\* save or for the file of the configuration being saved.
C37_SaveAtomic ==
    [][(saver.pc = "writing" /\ saver' = saver /\ cfg_op' = "load_config")
          => cfg_out'.ret \in { LoadResult(saver.old).ret,
                                LoadResult(JsonFile(PyDict(saver.arg))).ret }]_vars

\* C38: whenever handle_config_command returns 1 the config file is exactly
\* what it was before the call, and whenever it saves, the configuration in
\* the file passes validate_config.
C38_ChangesOnlyOnSuccess ==
    cfg_op = "handle_config_command" =>
        /\ cfg_out.ret = 1 => cfg_file = cfg_in[1]
        /\ (cfg_out.save /\ cfg_out.ret = 0) =>
              (/\ cfg_file.kind = "json"
               /\ validate_config(FromJson(cfg_file.doc).d) = Accept)

\* C39: a session in the default mode (neither signal mode nor VAD) has, as
\* long as its loop runs, at least one armed stop source: the keyboard
\* listener is running and can post a stop token (or has posted one), or the
\* hard timeout is armed.
C39_StopSourceArmed ==
    (~signal_mode /\ ~vad_enabled /\ pc = "loop")
        => (kbd \in {"started", "reading"} \/ q # << >> \/ timeout # None)

====
